---- MODULE Spec2Model ----
(***************************************************************************)
(* A model of gobox's SharedRef (package sharedref): a shared cell whose   *)
(* copies all refer to one value, guarded by a mutex, two mode flags and a *)
(* use counter.  Every atomic load, store, TryLock and Unlock of Use(),    *)
(* Locking(), Swap() and tryLock() is one step of a goroutine, so that the *)
(* interleavings of concurrent callers are the ones the Go scheduler can   *)
(* produce.  Goroutines keep a call stack, because handlers call back into *)
(* the same SharedRef.                                                     *)
(* Package atom's Atom with Nest(), which takes its mutex with Lock(), is  *)
(* modelled after it on the same stacks, cells and heap.                   *)
(* So are Do() of the packages atom, sharedref and sharef, whose caller    *)
(* and body meet on two unbuffered channels, and package box's Atom, which *)
(* has a mutex and nothing else.                                           *)
(***************************************************************************)
EXTENDS Integers, Sequences, FiniteSets

\* Number of goroutines that share copies of the one SharedRef.
NThreads == 2

\* Deepest nesting of calls made from inside handlers.
MaxDepth == 2

\* Longest slice given to SliceExtract().
MaxLen == 3

\* Number of cells (the **T that New() allocates) that exist side by side.
NCells == 3

Cells == 1..NCells

\* The mutexes and the lockedByUse flags that exist side by side: those that
\* New() allocates and a pair for every Nest() whose Atom is in use.
Ctx == 1..(NThreads * MaxDepth + 1)

Threads == 1..NThreads

\* A nil *T.
NIL == 0

\* Addresses of the T values that New() and Swap() handlers allocate; enough
\* for every pointer the cell and the frames can hold at one time.
MaxAddr == 2 * NThreads * MaxDepth + 1

Addr == 1..MaxAddr

Ops == {"Use", "Locking", "Swap"}

VARIABLES
    value,               \* per cell: the *T its **T holds (NIL = dead)
    heap,                \* the T values the pointers refer to
    lsMutex,             \* TRUE when the sync.Mutex is locked
    lsLocking,           \* atomic.Bool set inside Locking()
    lsSwapping,          \* atomic.Bool set inside Swap()
    useCounter,          \* atomic.Int64: Use() blocks currently running
    contentionHandlers,  \* the handlers given to New()
    stack,               \* per goroutine: the frames of its calls in progress
    ret,                 \* per goroutine: what its last finished call returned
    order,               \* the test suite's Order: values appended by handlers
    deadlocked,          \* the test suite's flag set by its contention handler
    killed,              \* a Swap() whose handler returned nil has returned
    kind,                \* reflect.ValueOf(value).Kind() of the value given to New()
    input,               \* SliceExtract(): the handles it was given
    output,              \* SliceExtract(): the values collected so far
    index,               \* SliceExtract(): the position of its loop
    mutex,               \* package atom: per sync.Mutex, TRUE when it is locked
    lockedByUse,         \* package atom: the bools that lockedByUse fields point to
    lockedBySwap,        \* package atom: the bools that lockedBySwap fields point to
    locker,              \* Do(): per sync.Locker given to Do(), TRUE when it is locked
    events,              \* Do(): the ReadWriteEvents the group's callback was given
    group,               \* Do(): the group, its name and whether OnReadWrite() was called
    panics               \* the panics that have been raised, by message

\* The state of package atom's Atom, apart from its cell.
atomState == <<mutex, lockedByUse, lockedBySwap>>

\* The lockers, the group and the panics of the packages that have Do().
doState == <<locker, events, group, panics>>

\* What no method of SharedRef writes.
env == <<contentionHandlers, kind, input, output, index, atomState, doState>>

vars == <<value, heap, lsMutex, lsLocking, lsSwapping, useCounter,
          stack, ret, order, deadlocked, killed, env>>

cell == <<value, heap, lsMutex, lsLocking, lsSwapping, useCounter>>

\* No call: the result slot of a goroutine or handler that has made none.
NoCall == [op |-> "none", res |-> FALSE, calls |-> 0, late |-> FALSE]

NoRet == [op |-> "none", res |-> FALSE, calls |-> 0, late |-> FALSE, sub |-> NoCall]

\* Handlers are the callers' inputs.  A handler is <<kind>> or <<"call", op>>:
\* a handler that calls op on the same SharedRef.  A handler decides nothing
\* before it is invoked, so it is drawn when the call invokes it.
\*   Use:     skip       an empty handler
\*            inc        increments the int its argument points to (ptr++)
\*            extract    SliceExtract()'s handler: appends the int its argument
\*                       points to to SliceExtract()'s output
\*   Locking: skip       an empty handler
\*            incRecord  increments the int the enclosing Use() handler's
\*                       argument points to, then appends it to the Order
\*   Swap:    same       returns its argument
\*            kill       returns nil
\*            fresh      returns a pointer to a new zero int
\*            succ       returns a pointer to a new int, its argument's plus one
\*   A Swap handler of kind call returns its argument after its call.
Leaves(op) ==
    CASE op = "Use" -> {<<"skip">>}
      [] op = "Locking" -> {<<"skip">>}
      [] op = "Swap" -> {<<"same">>, <<"kill">>, <<"fresh">>}

Handlers(op, depth) ==
    Leaves(op) \cup
    (IF depth < MaxDepth
        THEN {<<"call", o>> : o \in Ops}
        ELSE {})

\* The handler steps after which a handler of this kind returns.
LastStep(h) ==
    CASE h[1] = "call" -> 1
      [] h[1] = "inc" -> 2
      [] h[1] = "extract" -> 1
      [] h[1] = "incRecord" -> 4
      [] OTHER -> 0

\* The SharedRef that New() returned, as the struct of pointers it is: its
\* value field is the address of the first cell.  (Its other fields point at
\* the mutex, the flags and the counter that New() made along with it.)
sharedref == [value |-> 1]

\* Copy giving the copy a **T of its own, as if the struct held the cell
\* itself and not a pointer to it.
Copy_OwnCell(h) == [value |-> h.value + 1]

\* Passing a SharedRef by value, as every method's receiver is: the copy
\* holds the same pointers.
Copy(h) == h

\* A call of op in progress; this is the receiver, a copy of the caller's
\* SharedRef.
Frame(op, this) ==
    [op |-> op, this |-> this, h |-> <<"none">>, pc |-> "isDead", arg |-> NIL,
     tmp |-> 0, new |-> NIL, hpc |-> 0, calls |-> 0, sub |-> NoCall, late |-> killed]

Depth(t) == Len(stack[t])

Top(t) == stack[t][Depth(t)]

\* The goroutine's innermost call is op and stands at pc.
At(t, op, pc) == Depth(t) > 0 /\ Top(t).op = op /\ Top(t).pc = pc

SetTop(t, f) == stack' = [stack EXCEPT ![t] = [@ EXCEPT ![Len(@)] = f]]

Goto(t, pc) == SetTop(t, [Top(t) EXCEPT !.pc = pc]) /\ UNCHANGED ret

Result(f, res) == [op |-> f.op, res |-> res, calls |-> f.calls, late |-> f.late]

\* The innermost call returns res: to the handler that made it, or to the
\* goroutine.
Return(t, res) ==
    LET f == Top(t)
        n == Depth(t)
    IN  IF n = 1
           THEN /\ stack' = [stack EXCEPT ![t] = <<>>]
                /\ ret' = [ret EXCEPT ![t] =
                              [op |-> f.op, res |-> res, calls |-> f.calls,
                               late |-> f.late, sub |-> f.sub]]
           ELSE /\ stack' = [stack EXCEPT ![t] =
                                [i \in 1..(n - 1) |->
                                    IF i = n - 1
                                       THEN [@[i] EXCEPT !.sub = Result(f, res)]
                                       ELSE @[i]]]
                /\ UNCHANGED ret

\* *this.value
Load(this) == value[this.value]

\* IsDead() and IsAlive().
IsDead(this) == Load(this) = NIL

IsAlive(this) == Load(this) # NIL

\* IsLocked().
IsLocked == lsLocking \/ lsSwapping

\* SliceExtract() is not running.
NoExtract == input = <<>> /\ output = <<>> /\ index = 0

\* Every mutex of package atom is unlocked and every flag false.
NoAtom ==
    /\ mutex = [c \in Ctx |-> FALSE]
    /\ lockedByUse = [c \in Ctx |-> FALSE]
    /\ lockedBySwap = [c \in Ctx |-> FALSE]

\* The sync.Lockers that callers give to Do().
Lockers == 1..MaxDepth

\* No group: the handle was not made through one.
NoGroup == [name |-> "", onReadWrite |-> FALSE]

\* No Do() has been called: every locker is unlocked, the callback has been
\* given no event and nothing has panicked.
NoDo ==
    /\ locker = [l \in Lockers |-> FALSE]
    /\ events = <<>>
    /\ group = NoGroup
    /\ panics = {}

\* New(value, contentionHandlers...) of a value of kind k: the first cell
\* points at the copy of the value unless 'rvalue.Kind() == reflect.Ptr'.
New(k, handlers) ==
    /\ kind = k
    /\ value = [c \in Cells |-> IF c = sharedref.value /\ k # "Ptr" THEN 1 ELSE NIL]
    /\ heap = [a \in Addr |-> 0]
    /\ lsMutex = FALSE
    /\ lsLocking = FALSE
    /\ lsSwapping = FALSE
    /\ useCounter = 0
    /\ contentionHandlers = handlers
    /\ stack = [t \in Threads |-> <<>>]
    /\ ret = [t \in Threads |-> NoRet]
    /\ order = <<>>
    /\ deadlocked = FALSE
    /\ killed = (k = "Ptr")
    /\ NoExtract
    /\ NoAtom
    /\ NoDo

\* New() of an int, or of a pointer to one (a cell as dead as Dead() makes).
InitCell(alive, handlers) == New(IF alive THEN "Int" ELSE "Ptr", handlers)

\* A goroutine calls op through a copy of the SharedRef.
Call(t, op) ==
    /\ Depth(t) = 0
    /\ stack' = [stack EXCEPT ![t] = <<Frame(op, Copy(sharedref))>>]
    /\ ret' = [ret EXCEPT ![t] = NoRet]
    /\ UNCHANGED <<cell, env, order, deadlocked, killed>>

\* A handler calls op on the same SharedRef.
HandlerCall(t) ==
    /\ Depth(t) > 0
    /\ Top(t).pc = "body"
    /\ Top(t).h[1] = "call"
    /\ Top(t).hpc = 0
    /\ stack' = [stack EXCEPT ![t] =
                    Append([@ EXCEPT ![Len(@)].hpc = 1],
                           Frame(Top(t).h[2], Copy(sharedref)))]
    /\ UNCHANGED <<cell, env, ret, order, deadlocked, killed>>

\* The handler of the innermost call has run to its end.
BodyDone(t, op) == At(t, op, "body") /\ Top(t).hpc = LastStep(Top(t).h)

-----------------------------------------------------------------------------
\* Use(): if this.IsDead() ... return false
UseIsDead(t) ==
    /\ At(t, "Use", "isDead")
    /\ IF IsDead(Top(t).this) THEN Return(t, FALSE) ELSE Goto(t, "isSwapping")
    /\ UNCHANGED <<cell, env, order, deadlocked, killed>>

\* UseIsSwapping with Swap()'s precondition on useCounter added to it.
UseIsSwapping_Exclusive(t) ==
    /\ At(t, "Use", "isSwapping")
    /\ IF lsSwapping \/ useCounter > 0 THEN Return(t, FALSE) ELSE Goto(t, "add")
    /\ UNCHANGED <<cell, env, order, deadlocked, killed>>

\* UseIsSwapping loading lsLocking in place of lsSwapping.
UseIsSwapping_WrongFlag(t) ==
    /\ At(t, "Use", "isSwapping")
    /\ IF lsLocking THEN Return(t, FALSE) ELSE Goto(t, "add")
    /\ UNCHANGED <<cell, env, order, deadlocked, killed>>

\* UseIsSwapping rejecting the call whenever IsLocked(), as if a Locking()
\* in progress excluded Use() as a Swap() in progress does.
UseIsSwapping_AnyLock(t) ==
    /\ At(t, "Use", "isSwapping")
    /\ IF IsLocked THEN Return(t, FALSE) ELSE Goto(t, "add")
    /\ UNCHANGED <<cell, env, order, deadlocked, killed>>

\* Use(): ... || this.lsSwapping.Load() return false
UseIsSwapping(t) ==
    /\ At(t, "Use", "isSwapping")
    /\ IF lsSwapping THEN Return(t, FALSE) ELSE Goto(t, "add")
    /\ UNCHANGED <<cell, env, order, deadlocked, killed>>

\* Use(): this.useCounter.Add(1)
UseAdd(t) ==
    /\ At(t, "Use", "add")
    /\ useCounter' = useCounter + 1
    /\ Goto(t, "invoke")
    /\ UNCHANGED <<value, heap, lsMutex, lsLocking, lsSwapping,
                   env, order, deadlocked, killed>>

\* Use(): handler(*this.value): the pointer is read and the handler entered.
UseInvoke(t, h) ==
    /\ At(t, "Use", "invoke")
    /\ SetTop(t, [Top(t) EXCEPT !.pc = "body", !.h = h, !.arg = Load(Top(t).this), !.calls = @ + 1])
    /\ UNCHANGED <<cell, env, ret, order, deadlocked, killed>>

\* Use(): the handler returns.
UseHandlerReturn(t) ==
    /\ BodyDone(t, "Use")
    /\ Goto(t, "sub")
    /\ UNCHANGED <<cell, env, order, deadlocked, killed>>

\* UseSub returning without 'this.useCounter.Add(-1)'.
UseSub_NoSub(t) ==
    /\ At(t, "Use", "sub")
    /\ Return(t, TRUE)
    /\ UNCHANGED <<cell, env, order, deadlocked, killed>>

\* Use(): this.useCounter.Add(-1); return true
UseSub(t) ==
    /\ At(t, "Use", "sub")
    /\ useCounter' = useCounter - 1
    /\ Return(t, TRUE)
    /\ UNCHANGED <<value, heap, lsMutex, lsLocking, lsSwapping,
                   env, order, deadlocked, killed>>

-----------------------------------------------------------------------------
\* TryLock going on whether or not mutex.TryLock() succeeded.
TryLock_Blind(t) ==
    /\ Depth(t) > 0
    /\ Top(t).pc = "tryLock"
    /\ Goto(t, "setFlag")
    /\ lsMutex' = TRUE
    /\ UNCHANGED <<value, heap, lsLocking, lsSwapping, useCounter,
                   env, order, deadlocked, killed>>

\* tryLock(): one round of 'for !mutex.TryLock()'; on failure attempts++ and
\* the goroutine sleeps ('attempts' is never read and is left out).
TryLock(t) ==
    /\ Depth(t) > 0
    /\ Top(t).pc = "tryLock"
    /\ IF lsMutex
          THEN Goto(t, "sleep") /\ UNCHANGED lsMutex
          ELSE Goto(t, "setFlag") /\ lsMutex' = TRUE
    /\ UNCHANGED <<value, heap, lsLocking, lsSwapping, useCounter,
                   env, order, deadlocked, killed>>

\* GiveUps for contention handlers that never call giveUp.
GiveUps_Never(handlers) == {FALSE}

\* GiveUps for a tryLock() that may give up with no handler asking it to.
GiveUps_Unasked(handlers) == BOOLEAN

\* What the contention handlers may decide after a failed attempt: a
\* "timeout" handler calls giveUp once the elapsed time has passed its
\* threshold, which any failed attempt may find to be the case.
GiveUps(handlers) ==
    IF \E i \in 1..Len(handlers) : handlers[i] = "timeout"
       THEN BOOLEAN
       ELSE {FALSE}

\* Contend with tryLock() returning true after giveUp, so that the caller
\* returns true without having run its handler.
Contend_ReturnsTrue(t) ==
    /\ Depth(t) > 0
    /\ Top(t).pc = "sleep"
    /\ \E gaveUp \in GiveUps(contentionHandlers) :
          IF gaveUp
             THEN Return(t, TRUE) /\ deadlocked' = TRUE
             ELSE Goto(t, "tryLock") /\ UNCHANGED deadlocked
    /\ UNCHANGED <<cell, env, order, killed>>

\* Contend releasing the mutex when it gives up, as if the Unlock() that
\* Locking() and Swap() defer had been deferred before tryLock().
Contend_Unlocks(t) ==
    /\ Depth(t) > 0
    /\ Top(t).pc = "sleep"
    /\ \E gaveUp \in GiveUps(contentionHandlers) :
          IF gaveUp
             THEN Return(t, FALSE) /\ deadlocked' = TRUE /\ lsMutex' = FALSE
             ELSE Goto(t, "tryLock") /\ UNCHANGED <<deadlocked, lsMutex>>
    /\ UNCHANGED <<value, heap, lsLocking, lsSwapping, useCounter,
                   env, order, killed>>

\* tryLock(): after the sleep every contention handler is called; 'if gaveUp
\* return false', and the caller (Locking() or Swap()) returns false as well.
Contend(t) ==
    /\ Depth(t) > 0
    /\ Top(t).pc = "sleep"
    /\ \E gaveUp \in GiveUps(contentionHandlers) :
          IF gaveUp
             THEN Return(t, FALSE) /\ deadlocked' = TRUE
             ELSE Goto(t, "tryLock") /\ UNCHANGED deadlocked
    /\ UNCHANGED <<cell, env, order, killed>>

-----------------------------------------------------------------------------
\* Locking(): if this.IsDead() ... return false
LockingIsDead(t) ==
    /\ At(t, "Locking", "isDead")
    /\ IF IsDead(Top(t).this) THEN Return(t, FALSE) ELSE Goto(t, "isSwapping")
    /\ UNCHANGED <<cell, env, order, deadlocked, killed>>

\* LockingIsSwapping going on to the handler without tryLock().
LockingIsSwapping_NoLock(t) ==
    /\ At(t, "Locking", "isSwapping")
    /\ IF lsSwapping THEN Return(t, FALSE) ELSE Goto(t, "setFlag")
    /\ UNCHANGED <<cell, env, order, deadlocked, killed>>

\* Locking(): ... || this.lsSwapping.Load() return false; else tryLock()
LockingIsSwapping(t) ==
    /\ At(t, "Locking", "isSwapping")
    /\ IF lsSwapping THEN Return(t, FALSE) ELSE Goto(t, "tryLock")
    /\ UNCHANGED <<cell, env, order, deadlocked, killed>>

\* LockingStore entering the handler without the store to lsLocking.
LockingStore_NoFlag(t, h) ==
    /\ At(t, "Locking", "setFlag")
    /\ SetTop(t, [Top(t) EXCEPT !.pc = "body", !.h = h, !.arg = Load(Top(t).this),
                                !.calls = @ + 1])
    /\ UNCHANGED <<cell, env, ret, order, deadlocked, killed>>

\* Locking(): this.lsLocking.Store(true), and the handler is entered.  (arg
\* records whether the cell was alive at that moment; the handler gets no
\* argument.)
LockingStore(t, h) ==
    /\ At(t, "Locking", "setFlag")
    /\ lsLocking' = TRUE
    /\ SetTop(t, [Top(t) EXCEPT !.pc = "body", !.h = h, !.arg = Load(Top(t).this), !.calls = @ + 1])
    /\ UNCHANGED <<value, heap, lsMutex, lsSwapping, useCounter,
                   env, ret, order, deadlocked, killed>>

\* Locking(): the handler returns and the deferred function starts.
LockingHandlerReturn(t) ==
    /\ BodyDone(t, "Locking")
    /\ Goto(t, "clearFlag")
    /\ UNCHANGED <<cell, env, order, deadlocked, killed>>

\* Locking()'s deferred function without 'this.lsLocking.Store(false)'.
LockingClear_Keeps(t) ==
    /\ At(t, "Locking", "clearFlag")
    /\ Goto(t, "unlock")
    /\ UNCHANGED <<value, heap, lsMutex, lsLocking, lsSwapping, useCounter,
                   env, order, deadlocked, killed>>

\* Locking(), deferred: this.lsLocking.Store(false)
LockingClear(t) ==
    /\ At(t, "Locking", "clearFlag")
    /\ lsLocking' = FALSE
    /\ Goto(t, "unlock")
    /\ UNCHANGED <<value, heap, lsMutex, lsSwapping, useCounter,
                   env, order, deadlocked, killed>>

\* Locking(), deferred: this.lsMutex.Unlock(); Locking() returns true.
LockingUnlock(t) ==
    /\ At(t, "Locking", "unlock")
    /\ lsMutex' = FALSE
    /\ Return(t, TRUE)
    /\ UNCHANGED <<value, heap, lsLocking, lsSwapping, useCounter,
                   env, order, deadlocked, killed>>

-----------------------------------------------------------------------------
\* Swap(): if this.IsDead() ... return false
SwapIsDead(t) ==
    /\ At(t, "Swap", "isDead")
    /\ IF IsDead(Top(t).this) THEN Return(t, FALSE) ELSE Goto(t, "isLocking")
    /\ UNCHANGED <<cell, env, order, deadlocked, killed>>

\* Swap(): ... || this.lsLocking.Load() ... return false
SwapIsLocking(t) ==
    /\ At(t, "Swap", "isLocking")
    /\ IF lsLocking THEN Return(t, FALSE) ELSE Goto(t, "useCount")
    /\ UNCHANGED <<cell, env, order, deadlocked, killed>>

\* SwapUseCounter without the load of useCounter: Swap() goes on to tryLock()
\* whatever Use() blocks are running.
SwapUseCounter_Ignored(t) ==
    /\ At(t, "Swap", "useCount")
    /\ Goto(t, "tryLock")
    /\ UNCHANGED <<cell, env, order, deadlocked, killed>>

\* Swap(): ... || this.useCounter.Load() > 0 return false; else tryLock()
SwapUseCounter(t) ==
    /\ At(t, "Swap", "useCount")
    /\ IF useCounter > 0 THEN Return(t, FALSE) ELSE Goto(t, "tryLock")
    /\ UNCHANGED <<cell, env, order, deadlocked, killed>>

\* SwapStoreFlag with the Unlock() not deferred: the mutex is released before
\* the handler runs.
SwapStoreFlag_Unlocks(t) ==
    /\ At(t, "Swap", "setFlag")
    /\ lsSwapping' = TRUE
    /\ lsMutex' = FALSE
    /\ Goto(t, "invoke")
    /\ UNCHANGED <<value, heap, lsLocking, useCounter,
                   env, order, deadlocked, killed>>

\* Swap(): this.lsSwapping.Store(true)
SwapStoreFlag(t) ==
    /\ At(t, "Swap", "setFlag")
    /\ lsSwapping' = TRUE
    /\ Goto(t, "invoke")
    /\ UNCHANGED <<value, heap, lsMutex, lsLocking, useCounter,
                   env, order, deadlocked, killed>>

\* Swap(): handler(*this.value): the pointer is read and the handler entered.
SwapInvoke(t, h) ==
    /\ At(t, "Swap", "invoke")
    /\ SetTop(t, [Top(t) EXCEPT !.pc = "body", !.h = h, !.arg = Load(Top(t).this), !.calls = @ + 1])
    /\ UNCHANGED <<cell, env, ret, order, deadlocked, killed>>

\* The pointers held by the cell and by the calls in progress; every other T
\* is garbage.
Reachable ==
    {value[c] : c \in Cells} \cup
    UNION {{stack[t][i].arg : i \in 1..Len(stack[t])} \cup
           {stack[t][i].new : i \in 1..Len(stack[t])} : t \in Threads}

\* The address of a newly allocated T.
Alloc == CHOOSE a \in Addr : a \notin Reachable /\ \A b \in Addr \ Reachable : a <= b

\* Swap(): the handler returns newValue.  (A handler that dereferences a nil
\* argument panics; succ is only given to cells that stay alive.)
SwapHandlerReturn(t) ==
    /\ BodyDone(t, "Swap")
    /\ LET f == Top(t)
           k == f.h[1]
       IN  CASE k = "kill" ->
                  /\ SetTop(t, [f EXCEPT !.pc = "store", !.new = NIL])
                  /\ UNCHANGED heap
             [] k = "fresh" ->
                  /\ SetTop(t, [f EXCEPT !.pc = "store", !.new = Alloc])
                  /\ heap' = [heap EXCEPT ![Alloc] = 0]
             [] k = "succ" ->
                  /\ f.arg # NIL
                  /\ SetTop(t, [f EXCEPT !.pc = "store", !.new = Alloc])
                  /\ heap' = [heap EXCEPT ![Alloc] = heap[f.arg] + 1]
             [] OTHER ->
                  /\ SetTop(t, [f EXCEPT !.pc = "store", !.new = f.arg])
                  /\ UNCHANGED heap
    /\ UNCHANGED <<value, lsMutex, lsLocking, lsSwapping, useCounter,
                   env, ret, order, deadlocked, killed>>

\* SwapStore storing nil whatever the handler returned.
SwapStore_Nil(t) ==
    /\ At(t, "Swap", "store")
    /\ value' = [value EXCEPT ![Top(t).this.value] = NIL]
    /\ Goto(t, "clearFlag")
    /\ UNCHANGED <<heap, lsMutex, lsLocking, lsSwapping, useCounter,
                   env, order, deadlocked, killed>>

\* Swap(): *this.value = newValue; the deferred function starts.
SwapStore(t) ==
    /\ At(t, "Swap", "store")
    /\ value' = [value EXCEPT ![Top(t).this.value] = Top(t).new]
    /\ Goto(t, "clearFlag")
    /\ UNCHANGED <<heap, lsMutex, lsLocking, lsSwapping, useCounter,
                   env, order, deadlocked, killed>>

\* Swap(), deferred: this.lsSwapping.Store(false)
SwapClear(t) ==
    /\ At(t, "Swap", "clearFlag")
    /\ lsSwapping' = FALSE
    /\ Goto(t, "unlock")
    /\ UNCHANGED <<value, heap, lsMutex, lsLocking, useCounter,
                   env, order, deadlocked, killed>>

\* SwapUnlock returning without 'this.lsMutex.Unlock()'.
SwapUnlock_Held(t) ==
    /\ At(t, "Swap", "unlock")
    /\ killed' = (killed \/ Top(t).new = NIL)
    /\ Return(t, TRUE)
    /\ UNCHANGED <<cell, env, order, deadlocked>>

\* Swap(), deferred: this.lsMutex.Unlock(); Swap() returns true.
SwapUnlock(t) ==
    /\ At(t, "Swap", "unlock")
    /\ lsMutex' = FALSE
    /\ killed' = (killed \/ Top(t).new = NIL)
    /\ Return(t, TRUE)
    /\ UNCHANGED <<value, heap, lsLocking, lsSwapping, useCounter,
                   env, order, deadlocked>>

-----------------------------------------------------------------------------
\* The int a handler of kind inc or incRecord works on: its own argument, or
\* the argument of the Use() handler that encloses the Locking() call.
Ptr(t) ==
    IF Top(t).h[1] = "inc" THEN Top(t).arg ELSE stack[t][Depth(t) - 1].arg

InHandler(t, kinds, step) ==
    /\ Depth(t) > 0
    /\ Top(t).pc = "body"
    /\ Top(t).h[1] \in kinds
    /\ Top(t).hpc = step

\* ptr++, first half: the handler reads the int.  (A nil ptr panics.)
HandlerRead(t) ==
    /\ InHandler(t, {"inc", "incRecord"}, 0)
    /\ Ptr(t) # NIL
    /\ SetTop(t, [Top(t) EXCEPT !.tmp = heap[Ptr(t)], !.hpc = 1])
    /\ UNCHANGED <<cell, env, ret, order, deadlocked, killed>>

\* ptr++, second half: the handler writes the int back, plus one.
HandlerWrite(t) ==
    /\ InHandler(t, {"inc", "incRecord"}, 1)
    /\ heap' = [heap EXCEPT ![Ptr(t)] = Top(t).tmp + 1]
    /\ SetTop(t, [Top(t) EXCEPT !.hpc = 2])
    /\ UNCHANGED <<value, lsMutex, lsLocking, lsSwapping, useCounter,
                   env, ret, order, deadlocked, killed>>

\* order.Append(ptr's int): the argument is evaluated.
HandlerLoad(t) ==
    /\ InHandler(t, {"incRecord"}, 2)
    /\ SetTop(t, [Top(t) EXCEPT !.tmp = heap[Ptr(t)], !.hpc = 3])
    /\ UNCHANGED <<cell, env, ret, order, deadlocked, killed>>

\* Order.Append(x), under the Order's own mutex.
HandlerAppend(t) ==
    /\ InHandler(t, {"incRecord"}, 3)
    /\ order' = Append(order, Top(t).tmp)
    /\ SetTop(t, [Top(t) EXCEPT !.hpc = 4])
    /\ UNCHANGED <<cell, env, ret, deadlocked, killed>>

-----------------------------------------------------------------------------
\* Goroutines calling Use(), Locking() and Swap() over and over, with
\* handlers that call back into the SharedRef, on a cell made by New() or by
\* Dead(), with or without a contention handler.
Init ==
    \E alive \in BOOLEAN, handlers \in {<<>>, <<"timeout">>} :
        InitCell(alive, handlers)

UseSteps(t) ==
    \/ UseIsDead(t)
    \/ UseIsSwapping(t)
    \/ UseAdd(t)
    \/ \E h \in Handlers("Use", Depth(t)) : UseInvoke(t, h)
    \/ UseHandlerReturn(t)
    \/ UseSub(t)

LockSteps(t) ==
    \/ TryLock(t)
    \/ Contend(t)

LockingSteps(t) ==
    \/ LockingIsDead(t)
    \/ LockingIsSwapping(t)
    \/ \E h \in Handlers("Locking", Depth(t)) : LockingStore(t, h)
    \/ LockingHandlerReturn(t)
    \/ LockingClear(t)
    \/ LockingUnlock(t)

SwapSteps(t) ==
    \/ SwapIsDead(t)
    \/ SwapIsLocking(t)
    \/ SwapUseCounter(t)
    \/ SwapStoreFlag(t)
    \/ \E h \in Handlers("Swap", Depth(t)) : SwapInvoke(t, h)
    \/ SwapHandlerReturn(t)
    \/ SwapStore(t)
    \/ SwapClear(t)
    \/ SwapUnlock(t)

Next ==
    \E t \in Threads :
        \/ \E op \in Ops : Call(t, op)
        \/ HandlerCall(t)
        \/ UseSteps(t)
        \/ LockSteps(t)
        \/ LockingSteps(t)
        \/ SwapSteps(t)

Spec == Init /\ [][Next]_vars

-----------------------------------------------------------------------------
\* Concurrently(times, handler): every goroutine makes its one call.
CallOnce(t, op) ==
    /\ ret[t] = NoRet
    /\ Call(t, op)

\* Every goroutine's call has returned.
AllReturned == \A t \in Threads : Depth(t) = 0 /\ ret[t].op # "none"

\* Test_Swap_Is_Atomic: concurrent Swap() calls whose handlers return a
\* pointer to the value they were given plus one; no contention handler.
InitSwapAtomic == InitCell(TRUE, <<>>)

NextSwapAtomic ==
    \E t \in Threads :
        \/ CallOnce(t, "Swap")
        \/ SwapIsDead(t)
        \/ SwapIsLocking(t)
        \/ SwapUseCounter(t)
        \/ TryLock(t)
        \/ Contend(t)
        \/ SwapStoreFlag(t)
        \/ SwapInvoke(t, <<"succ">>)
        \/ SwapHandlerReturn(t)
        \/ SwapStore(t)
        \/ SwapClear(t)
        \/ SwapUnlock(t)

SpecSwapAtomic == InitSwapAtomic /\ [][NextSwapAtomic]_vars

\* Test_Locking_Is_Atomic: concurrent Use() calls whose handlers call
\* Locking() with a handler that increments the Use() handler's int and
\* appends it to the Order; the contention handler gives up on a timeout.
InitLockingAtomic == InitCell(TRUE, <<"timeout">>)

NextLockingAtomic ==
    \E t \in Threads :
        \/ CallOnce(t, "Use")
        \/ UseIsDead(t)
        \/ UseIsSwapping(t)
        \/ UseAdd(t)
        \/ UseInvoke(t, <<"call", "Locking">>)
        \/ HandlerCall(t)
        \/ LockingIsDead(t)
        \/ LockingIsSwapping(t)
        \/ TryLock(t)
        \/ Contend(t)
        \/ LockingStore(t, <<"incRecord">>)
        \/ HandlerRead(t)
        \/ HandlerWrite(t)
        \/ HandlerLoad(t)
        \/ HandlerAppend(t)
        \/ LockingHandlerReturn(t)
        \/ LockingClear(t)
        \/ LockingUnlock(t)
        \/ UseHandlerReturn(t)
        \/ UseSub(t)

SpecLockingAtomic == InitLockingAtomic /\ [][NextLockingAtomic]_vars

\* Test_Use_Is_Not_Atomic: concurrent Use() calls whose handlers increment
\* the int; no contention handler.
InitUseRace == InitCell(TRUE, <<>>)

NextUseRace ==
    \E t \in Threads :
        \/ CallOnce(t, "Use")
        \/ UseIsDead(t)
        \/ UseIsSwapping(t)
        \/ UseAdd(t)
        \/ UseInvoke(t, <<"inc">>)
        \/ HandlerRead(t)
        \/ HandlerWrite(t)
        \/ UseHandlerReturn(t)
        \/ UseSub(t)

SpecUseRace == InitUseRace /\ [][NextUseRace]_vars

-----------------------------------------------------------------------------
\* The kinds of value that the callers give to New().
Kinds == {"Int", "Struct", "Slice", "Map", "Ptr"}

\* The test suite's single-goroutine tests: calls are made one after another,
\* each with handlers that may call back into the SharedRef, on a cell that
\* New() made of a value of any kind, with or without a contention handler.
InitSequential ==
    \E k \in Kinds, handlers \in {<<>>, <<"timeout">>} : New(k, handlers)

\* A call made while no other call is in progress.
CallAlone(t, op) ==
    /\ \A u \in Threads : Depth(u) = 0
    /\ Call(t, op)

\* A step of a call in progress.
Step(t) ==
    \/ HandlerCall(t)
    \/ UseSteps(t)
    \/ LockSteps(t)
    \/ LockingSteps(t)
    \/ SwapSteps(t)

NextSequential ==
    \E t \in Threads :
        \/ \E op \in Ops : CallAlone(t, op)
        \/ Step(t)

SpecSequential == InitSequential /\ [][NextSequential]_vars

\* tryLock() returns false: a contention handler has called giveUp.
GaveUp(t) == Contend(t) /\ Len(stack'[t]) < Len(stack[t])

\* Test_Locking_Inside_Locking_Deadlocks and Test_Swap_Inside_Swap_Deadlocks:
\* a goroutine calls Locking() with a handler that calls Locking(), or Swap()
\* with a handler that calls Swap() and then returns its argument; the
\* contention handler gives up past a threshold.
InitDeadlocks == InitCell(TRUE, <<"timeout">>)

StepDeadlocks(t) ==
    \/ LockingIsDead(t)
    \/ LockingIsSwapping(t)
    \/ SwapIsDead(t)
    \/ SwapIsLocking(t)
    \/ SwapUseCounter(t)
    \/ TryLock(t)
    \/ Contend(t)
    \/ LockingStore(t, <<"call", "Locking">>)
    \/ SwapStoreFlag(t)
    \/ SwapInvoke(t, <<"call", "Swap">>)
    \/ HandlerCall(t)
    \/ LockingHandlerReturn(t)
    \/ LockingClear(t)
    \/ LockingUnlock(t)
    \/ SwapHandlerReturn(t)
    \/ SwapStore(t)
    \/ SwapClear(t)
    \/ SwapUnlock(t)

NextDeadlocks ==
    \E t \in Threads :
        \/ \E op \in {"Locking", "Swap"} : CallOnce(t, op) /\ CallAlone(t, op)
        \/ StepDeadlocks(t)

SpecDeadlocks == InitDeadlocks /\ [][NextDeadlocks]_vars

\* The Go scheduler lets a goroutine that can take a step take one, and the
\* elapsed time a contention handler is given grows with every failed
\* attempt, so that a handler that gives up past a threshold does give up.
FairDeadlocks ==
    /\ SpecDeadlocks
    /\ \A t \in Threads : WF_vars(StepDeadlocks(t)) /\ SF_vars(GaveUp(t))

\* Test_Mutation: the SharedRef is handed to one caller after another, each
\* of which works on its own copy: a Use() whose handler increments the
\* Counter in place, or a Swap() whose handler returns a pointer to a new
\* Counter, one more than its argument's, or returns nil.
InitMutation == InitCell(TRUE, <<>>)

NextMutation ==
    \E t \in Threads :
        \/ \E op \in {"Use", "Swap"} : CallOnce(t, op) /\ CallAlone(t, op)
        \/ UseIsDead(t)
        \/ UseIsSwapping(t)
        \/ UseAdd(t)
        \/ UseInvoke(t, <<"inc">>)
        \/ HandlerRead(t)
        \/ HandlerWrite(t)
        \/ UseHandlerReturn(t)
        \/ UseSub(t)
        \/ SwapIsDead(t)
        \/ SwapIsLocking(t)
        \/ SwapUseCounter(t)
        \/ TryLock(t)
        \/ SwapStoreFlag(t)
        \/ \E h \in {<<"succ">>, <<"kill">>} : SwapInvoke(t, h)
        \/ SwapHandlerReturn(t)
        \/ SwapStore(t)
        \/ SwapClear(t)
        \/ SwapUnlock(t)

SpecMutation == InitMutation /\ [][NextMutation]_vars

\* SliceExtract() called by one goroutine, nothing else running, on a slice
\* of SharedRefs of ints, as in Test_SliceExtract: cell c was made by New(c),
\* or by Dead().  (Between two of its Use() calls every cell's flags and
\* counter are idle, so the one set of them stands for those of the cell the
\* current call uses.)
Slices == UNION {[1..n -> {[value |-> c] : c \in Cells}] : n \in 0..MaxLen}

InitSliceExtract ==
    /\ \E live \in SUBSET Cells :
          value = [c \in Cells |-> IF c \in live THEN c ELSE NIL]
    /\ heap = [a \in Addr |-> IF a \in Cells THEN a ELSE 0]
    /\ lsMutex = FALSE
    /\ lsLocking = FALSE
    /\ lsSwapping = FALSE
    /\ useCounter = 0
    /\ contentionHandlers = <<>>
    /\ stack = [t \in Threads |-> <<>>]
    /\ ret = [t \in Threads |-> NoRet]
    /\ order = <<>>
    /\ deadlocked = FALSE
    /\ killed = FALSE
    /\ kind = "Int"
    /\ input \in Slices
    /\ output = <<>>
    /\ index = 0
    /\ NoAtom
    /\ NoDo

\* HandlerExtract putting the value in front of the output.
HandlerExtract_Prepend(t) ==
    /\ InHandler(t, {"extract"}, 0)
    /\ output' = <<heap[Top(t).arg]>> \o output
    /\ SetTop(t, [Top(t) EXCEPT !.hpc = 1])
    /\ UNCHANGED <<cell, contentionHandlers, kind, input, index, atomState, doState, ret,
                   order, deadlocked, killed>>

\* SliceExtract()'s handler: output = append(output, the T that ptr points
\* to)
HandlerExtract(t) ==
    /\ InHandler(t, {"extract"}, 0)
    /\ output' = Append(output, heap[Top(t).arg])
    /\ SetTop(t, [Top(t) EXCEPT !.hpc = 1])
    /\ UNCHANGED <<cell, contentionHandlers, kind, input, index, atomState, doState, ret,
                   order, deadlocked, killed>>

\* SliceExtract(): 'for _, ref := range input { ref.Use(...) }', one round:
\* the next element is copied into ref and Use() is called on it.
ExtractNext(t) ==
    /\ \A u \in Threads : Depth(u) = 0
    /\ \A u \in Threads \ {t} : ret[u] = NoRet
    /\ index < Len(input)
    /\ index' = index + 1
    /\ stack' = [stack EXCEPT ![t] = <<Frame("Use", Copy(input[index + 1]))>>]
    /\ UNCHANGED <<cell, contentionHandlers, kind, input, output, atomState, doState, ret,
                   order, deadlocked, killed>>

NextSliceExtract ==
    \E t \in Threads :
        \/ ExtractNext(t)
        \/ UseIsDead(t)
        \/ UseIsSwapping(t)
        \/ UseAdd(t)
        \/ UseInvoke(t, <<"extract">>)
        \/ HandlerExtract(t)
        \/ UseHandlerReturn(t)
        \/ UseSub(t)

SpecSliceExtract == InitSliceExtract /\ [][NextSliceExtract]_vars

-----------------------------------------------------------------------------
\* Package atom's Atom with Nest() (src/atom/atom.go): a cell like
\* SharedRef's, guarded by a sync.Mutex that Use() and Swap() take with
\* Lock(), and by two plain bools.  Nest() returns a copy with a mutex and a
\* lockedByUse flag of its own.  The goroutines' stacks, the cells and the
\* heap are those declared above; its frames stand at these places:
\*   Use:  isDead, lockedBySwap, lock, setFlag, invoke, body, clearFlag, unlock
\*   Swap: isDead, lockedByUse, lockedBySwap, lock, setFlag, invoke, body,
\*         store, clearFlag, unlock
\* A handler is <<kind>> as above, or <<"call", op, via>>: it calls op on the
\* Atom itself (via = "same") or on the result of its Nest() (via = "nest").
\* The bools are read and written without synchronisation; a racing read
\* yields the value before or after the write, which are the two orders of
\* the steps below.

\* What no method of Atom writes.
sharedrefState ==
    <<lsMutex, lsLocking, lsSwapping, useCounter, contentionHandlers, order,
      deadlocked, kind, input, output, index, doState>>

\* The Atom that New() returned: the addresses of its mutex, of its two
\* flags and of its cell.
atom == [mutex |-> 1, lockedByUse |-> 1, lockedBySwap |-> 1, value |-> 1]

\* The Atoms in use: the one New() returned and the receivers of the calls in
\* progress.
Atoms ==
    {atom} \cup UNION {{stack[t][i].this : i \in 1..Len(stack[t])} : t \in Threads}

\* The address of a newly allocated sync.Mutex, unlocked, and of a newly
\* allocated bool, false.  (What no Atom in use points to is garbage, and
\* was left unlocked and false by the call that used it.)
FreshMutex ==
    CHOOSE c \in Ctx :
        /\ c \notin {a.mutex : a \in Atoms}
        /\ \A d \in Ctx : d \notin {a.mutex : a \in Atoms} => c <= d

FreshFlag ==
    CHOOSE c \in Ctx :
        /\ c \notin {a.lockedByUse : a \in Atoms}
        /\ \A d \in Ctx : d \notin {a.lockedByUse : a \in Atoms} => c <= d

\* Nest() giving the copy a cell of its own as well.
Nest_OwnCell(this) ==
    [this EXCEPT !.lockedByUse = FreshFlag, !.mutex = FreshMutex, !.value = @ + 1]

\* Nest() without 'this.mutex = &mutex': the copy keeps the receiver's mutex.
Nest_SameMutex(this) == [this EXCEPT !.lockedByUse = FreshFlag]

\* Nest(): the receiver, a copy, is given a new lockedByUse and a new mutex
\* and is returned.
Nest(this) == [this EXCEPT !.lockedByUse = FreshFlag, !.mutex = FreshMutex]

\* The receiver of a call made on the Atom or on its Nest().
Receiver(via) == IF via = "nest" THEN Copy(Nest(atom)) ELSE Copy(atom)

Vias == {"same", "nest"}

AtomOps == {"Use", "Swap"}

AtomHandlers(op, depth) ==
    (IF op = "Use" THEN {<<"skip">>} ELSE {<<"same">>, <<"kill">>, <<"fresh">>})
    \cup
    (IF depth < MaxDepth
        THEN {<<"call", o, via>> : o \in AtomOps, via \in Vias}
        ELSE {})

\* atom.New(value) of an int or of a pointer (dead).
InitAtom ==
    /\ \E alive \in BOOLEAN :
          /\ value = [c \in Cells |-> IF c = atom.value /\ alive THEN 1 ELSE NIL]
          /\ killed = ~alive
          /\ kind = IF alive THEN "Int" ELSE "Ptr"
    /\ heap = [a \in Addr |-> 0]
    /\ NoAtom
    /\ NoDo
    /\ stack = [t \in Threads |-> <<>>]
    /\ ret = [t \in Threads |-> NoRet]
    /\ lsMutex = FALSE
    /\ lsLocking = FALSE
    /\ lsSwapping = FALSE
    /\ useCounter = 0
    /\ contentionHandlers = <<>>
    /\ order = <<>>
    /\ deadlocked = FALSE
    /\ NoExtract

\* A goroutine calls op on the Atom or on its Nest().
AtomCall(t, op, via) ==
    /\ Depth(t) = 0
    /\ stack' = [stack EXCEPT ![t] = <<Frame(op, Receiver(via))>>]
    /\ ret' = [ret EXCEPT ![t] = NoRet]
    /\ UNCHANGED <<value, heap, atomState, killed, sharedrefState>>

\* A handler calls op on the Atom or on its Nest().
AtomHandlerCall(t) ==
    /\ Depth(t) > 0
    /\ Top(t).pc = "body"
    /\ Top(t).h[1] = "call"
    /\ Top(t).hpc = 0
    /\ stack' = [stack EXCEPT ![t] =
                    Append([@ EXCEPT ![Len(@)].hpc = 1],
                           Frame(Top(t).h[2], Receiver(Top(t).h[3])))]
    /\ UNCHANGED <<value, heap, atomState, ret, killed, sharedrefState>>

\* Use() and Swap(): if this.IsDead() ... return false
AtomIsDead(t) ==
    /\ Depth(t) > 0
    /\ Top(t).pc = "isDead"
    /\ IF IsDead(Top(t).this)
          THEN Return(t, FALSE)
          ELSE Goto(t, IF Top(t).op = "Use" THEN "lockedBySwap" ELSE "lockedByUse")
    /\ UNCHANGED <<value, heap, atomState, killed, sharedrefState>>

\* Swap(): ... || this.IsLocked(), first operand: the load of lockedByUse
AtomLockedByUse(t) ==
    /\ At(t, "Swap", "lockedByUse")
    /\ IF lockedByUse[Top(t).this.lockedByUse]
          THEN Return(t, FALSE)
          ELSE Goto(t, "lockedBySwap")
    /\ UNCHANGED <<value, heap, atomState, killed, sharedrefState>>

\* Use(): ... || the load of lockedBySwap; Swap(): IsLocked()'s second operand
AtomLockedBySwap(t) ==
    /\ Depth(t) > 0
    /\ Top(t).pc = "lockedBySwap"
    /\ IF lockedBySwap[Top(t).this.lockedBySwap]
          THEN Return(t, FALSE)
          ELSE Goto(t, "lock")
    /\ UNCHANGED <<value, heap, atomState, killed, sharedrefState>>

\* AtomLock for a reentrant mutex: Lock() does not wait for an Unlock().
AtomLock_Reentrant(t) ==
    /\ Depth(t) > 0
    /\ Top(t).pc = "lock"
    /\ mutex' = [mutex EXCEPT ![Top(t).this.mutex] = TRUE]
    /\ Goto(t, "setFlag")
    /\ UNCHANGED <<value, heap, lockedByUse, lockedBySwap, killed, sharedrefState>>

\* this.mutex.Lock(): the goroutine waits until the mutex is unlocked.
AtomLock(t) ==
    /\ Depth(t) > 0
    /\ Top(t).pc = "lock"
    /\ ~mutex[Top(t).this.mutex]
    /\ mutex' = [mutex EXCEPT ![Top(t).this.mutex] = TRUE]
    /\ Goto(t, "setFlag")
    /\ UNCHANGED <<value, heap, lockedByUse, lockedBySwap, killed, sharedrefState>>

\* Use(): the store of true to lockedByUse; Swap(): to lockedBySwap
AtomSetFlag(t) ==
    /\ Depth(t) > 0
    /\ Top(t).pc = "setFlag"
    /\ IF Top(t).op = "Use"
          THEN /\ lockedByUse' = [lockedByUse EXCEPT ![Top(t).this.lockedByUse] = TRUE]
               /\ UNCHANGED lockedBySwap
          ELSE /\ lockedBySwap' = [lockedBySwap EXCEPT ![Top(t).this.lockedBySwap] = TRUE]
               /\ UNCHANGED lockedByUse
    /\ Goto(t, "invoke")
    /\ UNCHANGED <<value, heap, mutex, killed, sharedrefState>>

\* handler(*this.value): the pointer is read and the handler entered.
AtomInvoke(t, op, h) ==
    /\ At(t, op, "invoke")
    /\ SetTop(t, [Top(t) EXCEPT !.pc = "body", !.h = h, !.arg = Load(Top(t).this),
                                !.calls = @ + 1])
    /\ UNCHANGED <<value, heap, atomState, ret, killed, sharedrefState>>

\* Use(): the handler returns and the deferred function starts.
AtomUseHandlerReturn(t) ==
    /\ BodyDone(t, "Use")
    /\ Goto(t, "clearFlag")
    /\ UNCHANGED <<value, heap, atomState, killed, sharedrefState>>

\* Swap(): the handler returns newValue.
AtomSwapHandlerReturn(t) ==
    /\ BodyDone(t, "Swap")
    /\ LET f == Top(t)
           k == f.h[1]
       IN  CASE k = "kill" ->
                  /\ SetTop(t, [f EXCEPT !.pc = "store", !.new = NIL])
                  /\ UNCHANGED heap
             [] k = "fresh" ->
                  /\ SetTop(t, [f EXCEPT !.pc = "store", !.new = Alloc])
                  /\ heap' = [heap EXCEPT ![Alloc] = 0]
             [] OTHER ->
                  /\ SetTop(t, [f EXCEPT !.pc = "store", !.new = f.arg])
                  /\ UNCHANGED heap
    /\ UNCHANGED <<value, atomState, ret, killed, sharedrefState>>

\* Swap(): the store of newValue to the cell; the deferred function starts.
AtomSwapStore(t) ==
    /\ At(t, "Swap", "store")
    /\ value' = [value EXCEPT ![Top(t).this.value] = Top(t).new]
    /\ Goto(t, "clearFlag")
    /\ UNCHANGED <<heap, atomState, killed, sharedrefState>>

\* Deferred: the store of false to lockedByUse (Use()) or lockedBySwap
\* (Swap())
AtomClearFlag(t) ==
    /\ Depth(t) > 0
    /\ Top(t).pc = "clearFlag"
    /\ IF Top(t).op = "Use"
          THEN /\ lockedByUse' = [lockedByUse EXCEPT ![Top(t).this.lockedByUse] = FALSE]
               /\ UNCHANGED lockedBySwap
          ELSE /\ lockedBySwap' = [lockedBySwap EXCEPT ![Top(t).this.lockedBySwap] = FALSE]
               /\ UNCHANGED lockedByUse
    /\ Goto(t, "unlock")
    /\ UNCHANGED <<value, heap, mutex, killed, sharedrefState>>

\* Deferred: this.mutex.Unlock(); the call returns true.
AtomUnlock(t) ==
    /\ Depth(t) > 0
    /\ Top(t).pc = "unlock"
    /\ mutex' = [mutex EXCEPT ![Top(t).this.mutex] = FALSE]
    /\ killed' = (killed \/ (Top(t).op = "Swap" /\ Top(t).new = NIL))
    /\ Return(t, TRUE)
    /\ UNCHANGED <<value, heap, lockedByUse, lockedBySwap, sharedrefState>>

AtomStep(t) ==
    \/ AtomHandlerCall(t)
    \/ AtomIsDead(t)
    \/ AtomLockedByUse(t)
    \/ AtomLockedBySwap(t)
    \/ AtomLock(t)
    \/ AtomSetFlag(t)
    \/ \E op \in AtomOps : \E h \in AtomHandlers(op, Depth(t)) : AtomInvoke(t, op, h)
    \/ AtomUseHandlerReturn(t)
    \/ AtomSwapHandlerReturn(t)
    \/ AtomSwapStore(t)
    \/ AtomClearFlag(t)
    \/ AtomUnlock(t)

\* One goroutine at a time calls Use() or Swap() on the Atom or on an Atom
\* that Nest() returns, with handlers that do the same.
AtomCallAlone(t, op, via) ==
    /\ \A u \in Threads : Depth(u) = 0
    /\ AtomCall(t, op, via)

NextAtomSequential ==
    \E t \in Threads :
        \/ \E op \in AtomOps, via \in Vias : AtomCallAlone(t, op, via)
        \/ AtomStep(t)

SpecAtomSequential == InitAtom /\ [][NextAtomSequential]_vars

\* The Go scheduler lets a goroutine that can take a step take one; a
\* goroutine waiting in Lock() can take none until the mutex is unlocked.
FairAtomSequential ==
    /\ SpecAtomSequential
    /\ \A t \in Threads : WF_vars(AtomStep(t))

-----------------------------------------------------------------------------
\* Do(locker, body) of the packages whose handles hold a 'state **T' and
\* hand the value to a body through a Portal: package atom's Atom
\* (src/atom/atom.go), which locks the locker in the caller, package
\* sharedref's SharedRef (src/sharedref/sharedref.go), which locks it in the
\* body's goroutine, and package sharef's Sharef (src/sharef/sharef.go),
\* which takes no locker and panics where the others return.
\* A Do() in progress is a frame on its goroutine's stack that holds the
\* places of two goroutines, the caller's (pc) and the body's (bpc, hpc):
\*   caller, atom:      isDead, go, lock, load, send, closeReader, recv,
\*                      store, closeWriter, notify, unlock, wait
\*   caller, sharedref: isDead, go, load, send, closeReader, recv, store,
\*                      closeWriter, wait
\*   caller, sharef:    isDead, go, load, send, closeReader, recv, store,
\*                      closeWriter, notify, wait
\*   body:              idle, (sharedref: lock,) run, done,
\*                      (sharedref: unlock,) end
\* Reader and Writer are unbuffered channels: a send and a receive happen
\* together, as one step of both goroutines; a receive from a closed channel
\* yields nil at once and a send on a closed channel panics, whether the
\* sender arrived before or after the close.
\* A body is the sequence of its steps:
\*   recv       <-portal.Reader
\*   sendSame   portal.Writer <- the pointer first received
\*   sendSucc   value := *pointer; value++; portal.Writer <- &value
\*   sendNil    portal.Writer <- nil
\*   recover    defer func() { recover() }()
\*   incr       *pointer++, on the pointer first received
\*   callOther  Do(another locker, body) on the same handle, with the body
\*              InPlace
\*   callSame   Do(the same locker, body) on the same handle, with the body
\*              InPlace

Impls == {"atom", "sharedref", "sharef"}

Inc == <<"recv", "sendSucc">>

Same == <<"recv", "sendSame">>

Kill == <<"recv", "sendNil">>

\* The body of Test_Atom_Do_Reader_And_Writer_Are_Automatically_Closed.
Twice == <<"recv", "recv", "sendSame", "recover", "sendSame">>

Bodies == {Inc, Same, Kill, Twice}

Sends == {"sendSame", "sendSucc", "sendNil"}

\* The kinds of handle that are not the result of New(): Dead()'s, the zero
\* value of the type ('var sharef Sharef[int]'), and none at all.
Unmade == {"Dead", "Zero", "None"}

\* The handle Do() is called on: group.New("atom-1", 0) gives it a name and
\* its group, New() and Dead() (also as group.Dead()) give it neither, and
\* the state of a zero value is nil.
Handle ==
    [state |-> IF kind \in {"Zero", "None"} THEN NIL ELSE 1,
     name |-> IF group # NoGroup /\ kind \notin Unmade THEN "atom-1" ELSE "",
     group |-> group # NoGroup /\ kind \notin Unmade]

StateIsDead(this) == value[this.state] = NIL

\* A Do() of implementation impl in progress, called with locker l and body h.
DoFrame(impl, l, h) ==
    [op |-> "Do", impl |-> impl, this |-> Handle, locker |-> l, h |-> h,
     pc |-> "isDead", bpc |-> "idle", hpc |-> 0, arg |-> NIL, reads |-> 0,
     second |-> NIL, prev |-> NIL, new |-> NIL, rclosed |-> FALSE,
     wclosed |-> FALSE, recovered |-> FALSE, tmp |-> 0, calls |-> 0,
     sub |-> NoCall, late |-> killed]

\* What a finished Do() leaves on record: whether and with what body it ran,
\* what the body received first and on a second receive, and whether the body
\* recovered from a panic.
DoResult(f) ==
    [op |-> "Do", impl |-> f.impl, res |-> f.calls > 0, calls |-> f.calls,
     late |-> f.late, h |-> f.h, arg |-> f.arg, reads |-> f.reads, second |-> f.second,
     new |-> f.new, recovered |-> f.recovered, panicked |-> FALSE,
     sub |-> NoCall]

\* An unrecovered panic in a goroutine that nothing recovers ends the
\* program: no goroutine takes another step.
Crashed == \E p \in panics : p[1] = "goroutine"

SetAt(t, i, f) == stack' = [stack EXCEPT ![t] = [@ EXCEPT ![i] = f]]

\* Frame i of goroutine t is a Do() of the program that is still running.
Doing(t, i) ==
    /\ i \in 1..Depth(t)
    /\ stack[t][i].op = "Do"
    /\ ~Crashed

\* The caller of frame i stands at pc.
CallerAt(t, i, pc) == Doing(t, i) /\ stack[t][i].pc = pc

\* The body of frame i is running and its next step is one of steps.
BodyAt(t, i, steps) ==
    /\ Doing(t, i)
    /\ i = Depth(t)
    /\ stack[t][i].bpc = "run"
    /\ stack[t][i].hpc < Len(stack[t][i].h)
    /\ stack[t][i].h[stack[t][i].hpc + 1] \in steps

\* The pointers held by the cell and by the Do() calls in progress.
DoReachable ==
    {value[c] : c \in Cells} \cup
    UNION {UNION {{stack[t][i].arg, stack[t][i].new, stack[t][i].prev}
                    : i \in 1..Len(stack[t])} : t \in Threads}

\* The address of a newly allocated T.
DoAlloc ==
    CHOOSE a \in Addr : a \notin DoReachable /\ \A b \in Addr \ DoReachable : a <= b

\* AfterPc for an Atom.Do() that unlocks the locker before it notifies the
\* group.
AfterPc_NotifyUnlocked(impl, pc) ==
    CASE pc = "isDead" -> "go"
      [] pc = "go" -> IF impl = "atom" THEN "lock" ELSE "load"
      [] pc = "lock" -> "load"
      [] pc = "load" -> "send"
      [] pc = "send" -> "closeReader"
      [] pc = "closeReader" -> "recv"
      [] pc = "recv" -> "store"
      [] pc = "store" -> "closeWriter"
      [] pc = "closeWriter" -> IF impl = "sharedref" THEN "wait"
                               ELSE IF impl = "atom" THEN "unlock" ELSE "notify"
      [] pc = "unlock" -> "notify"
      [] pc = "notify" -> "wait"

\* The place of the caller after pc.
AfterPc(impl, pc) ==
    CASE pc = "isDead" -> "go"
      [] pc = "go" -> IF impl = "atom" THEN "lock" ELSE "load"
      [] pc = "lock" -> "load"
      [] pc = "load" -> "send"
      [] pc = "send" -> "closeReader"
      [] pc = "closeReader" -> "recv"
      [] pc = "recv" -> "store"
      [] pc = "store" -> "closeWriter"
      [] pc = "closeWriter" -> IF impl = "sharedref" THEN "wait" ELSE "notify"
      [] pc = "notify" -> IF impl = "atom" THEN "unlock" ELSE "wait"
      [] pc = "unlock" -> "wait"

\* The place that the caller of frame i moves on to.
Following(t, i) == AfterPc(stack[t][i].impl, stack[t][i].pc)

Advance(t, i) == SetAt(t, i, [stack[t][i] EXCEPT !.pc = Following(t, i)])

\* The Do() on top of goroutine t's stack returns, to the body that called it
\* or to the goroutine.
DoReturn(t, res) ==
    LET n == Depth(t)
    IN  IF n = 1
           THEN /\ stack' = [stack EXCEPT ![t] = <<>>]
                /\ ret' = [ret EXCEPT ![t] = [res EXCEPT !.sub = stack[t][1].sub]]
           ELSE /\ stack' = [stack EXCEPT ![t] =
                                [i \in 1..(n - 1) |->
                                    IF i = n - 1
                                       THEN [@[i] EXCEPT !.sub = res, !.hpc = @ + 1]
                                       ELSE @[i]]]
                /\ UNCHANGED ret

\* A goroutine calls Do(locker, body) of implementation impl on the handle.
DoCall(t, impl, l, h) ==
    /\ Depth(t) = 0
    /\ ~Crashed
    /\ stack' = [stack EXCEPT ![t] = <<DoFrame(impl, l, h)>>]
    /\ ret' = [ret EXCEPT ![t] = NoRet]
    /\ UNCHANGED <<value, heap, killed, atomState, sharedrefState>>

\* DoIsDead without the check: Do() goes on whatever the state.
DoIsDead_Ignored(t, i) ==
    /\ CallerAt(t, i, "isDead")
    /\ i = Depth(t)
    /\ Advance(t, i)
    /\ UNCHANGED <<value, heap, ret, killed, atomState, sharedrefState>>

\* Atom.Do() and SharedRef.Do(): if this.IsDead() { return }
DoIsDead(t, i) ==
    /\ CallerAt(t, i, "isDead")
    /\ stack[t][i].impl \in {"atom", "sharedref"}
    /\ i = Depth(t)
    /\ IF StateIsDead(stack[t][i].this)
          THEN DoReturn(t, DoResult(stack[t][i]))
          ELSE Advance(t, i) /\ UNCHANGED ret
    /\ UNCHANGED <<value, heap, killed, atomState, sharedrefState>>

\* SharefIsNil returning as Atom.Do() does, without a panic.
SharefIsNil_Returns(t, i) ==
    /\ CallerAt(t, i, "isDead")
    /\ stack[t][i].impl = "sharef"
    /\ i = Depth(t)
    /\ LET this == stack[t][i].this
       IN  IF this.state = NIL \/ value[this.state] = NIL
              THEN DoReturn(t, DoResult(stack[t][i]))
              ELSE Advance(t, i) /\ UNCHANGED ret
    /\ UNCHANGED <<value, heap, killed, atomState, sharedrefState>>

\* Sharef.Do(): if this.state == nil || *this.state == nil { panic(...) }; the
\* panic ends the call and reaches the caller.
SharefIsNil(t, i) ==
    /\ CallerAt(t, i, "isDead")
    /\ stack[t][i].impl = "sharef"
    /\ i = Depth(t)
    /\ LET this == stack[t][i].this
       IN  IF this.state = NIL \/ value[this.state] = NIL
              THEN /\ panics' = panics \cup {<<"Do", "Invalid state: value is nil.">>}
                   /\ DoReturn(t, [DoResult(stack[t][i]) EXCEPT !.panicked = TRUE])
              ELSE Advance(t, i) /\ UNCHANGED <<ret, panics>>
    /\ UNCHANGED <<value, heap, killed, atomState, lsMutex, lsLocking,
                   lsSwapping, useCounter, contentionHandlers, order, deadlocked,
                   kind, input, output, index, locker, events, group>>

\* sharef.New(value) of a value of kind k: a pointer panics and the caller
\* gets no Sharef; anything else gives a Sharef whose state points at a copy
\* of the value.
SharefNew(k) ==
    /\ kind = "None"
    /\ kind' = k
    /\ IF k = "Ptr"
          THEN /\ panics' = panics \cup {<<"New", "Invalid state: pointer was provided.">>}
               /\ UNCHANGED value
          ELSE /\ value' = [value EXCEPT ![1] = 1]
               /\ UNCHANGED panics
    /\ UNCHANGED <<heap, stack, ret, killed, atomState, lsMutex, lsLocking,
                   lsSwapping, useCounter, contentionHandlers, order, deadlocked,
                   input, output, index, locker, events, group>>

\* go func() { body(portal); wg.Done() }(): the body's goroutine exists; in
\* SharedRef.Do() it starts with locker.Lock().
DoGo(t, i) ==
    /\ CallerAt(t, i, "go")
    /\ SetAt(t, i, [stack[t][i] EXCEPT
                       !.pc = Following(t, i),
                       !.bpc = IF stack[t][i].impl = "sharedref" THEN "lock" ELSE "run",
                       !.calls = IF stack[t][i].impl = "sharedref" THEN @ ELSE @ + 1])
    /\ UNCHANGED <<value, heap, ret, killed, atomState, sharedrefState>>

\* DoLock with a locker that the goroutine whose Do() holds it can lock
\* again.
DoLock_Reentrant(t, i) ==
    /\ CallerAt(t, i, "lock")
    /\ \/ ~locker[stack[t][i].locker]
       \/ \E j \in 1..(i - 1) : stack[t][j].locker = stack[t][i].locker
    /\ locker' = [locker EXCEPT ![stack[t][i].locker] = TRUE]
    /\ Advance(t, i)
    /\ UNCHANGED <<value, heap, ret, killed, atomState, lsMutex, lsLocking,
                   lsSwapping, useCounter, contentionHandlers, order, deadlocked,
                   kind, input, output, index, events, group, panics>>

\* DoLock with a locker.Lock() that does not wait.
DoLock_NoWait(t, i) ==
    /\ CallerAt(t, i, "lock")
    /\ locker' = [locker EXCEPT ![stack[t][i].locker] = TRUE]
    /\ Advance(t, i)
    /\ UNCHANGED <<value, heap, ret, killed, atomState, lsMutex, lsLocking,
                   lsSwapping, useCounter, contentionHandlers, order, deadlocked,
                   kind, input, output, index, events, group, panics>>

\* Atom.Do(): locker.Lock(), which waits until the locker is unlocked.
DoLock(t, i) ==
    /\ CallerAt(t, i, "lock")
    /\ ~locker[stack[t][i].locker]
    /\ locker' = [locker EXCEPT ![stack[t][i].locker] = TRUE]
    /\ Advance(t, i)
    /\ UNCHANGED <<value, heap, ret, killed, atomState, lsMutex, lsLocking,
                   lsSwapping, useCounter, contentionHandlers, order, deadlocked,
                   kind, input, output, index, events, group, panics>>

\* previous := *this.state (in SharedRef.Do() the operand of the send, which
\* is evaluated before the send waits for its receiver).
DoLoad(t, i) ==
    /\ CallerAt(t, i, "load")
    /\ SetAt(t, i, [stack[t][i] EXCEPT !.pc = Following(t, i),
                                        !.prev = value[stack[t][i].this.state]])
    /\ UNCHANGED <<value, heap, ret, killed, atomState, sharedrefState>>

\* reader <- previous, together with the body's <-portal.Reader.
DoSend(t, i) ==
    /\ CallerAt(t, i, "send")
    /\ BodyAt(t, i, {"recv"})
    /\ SetAt(t, i, [stack[t][i] EXCEPT
                       !.pc = Following(t, i),
                       !.hpc = @ + 1,
                       !.reads = @ + 1,
                       !.arg = IF stack[t][i].reads = 0 THEN stack[t][i].prev ELSE @,
                       !.second = IF stack[t][i].reads = 0 THEN @ ELSE stack[t][i].prev])
    /\ UNCHANGED <<value, heap, ret, killed, atomState, sharedrefState>>

\* close(reader)
DoCloseReader(t, i) ==
    /\ CallerAt(t, i, "closeReader")
    /\ SetAt(t, i, [stack[t][i] EXCEPT !.pc = Following(t, i), !.rclosed = TRUE])
    /\ UNCHANGED <<value, heap, ret, killed, atomState, sharedrefState>>

\* The body's <-portal.Reader on the closed Reader yields nil.
BodyRecvClosed(t, i) ==
    /\ BodyAt(t, i, {"recv"})
    /\ stack[t][i].rclosed
    /\ SetAt(t, i, [stack[t][i] EXCEPT
                       !.hpc = @ + 1,
                       !.reads = @ + 1,
                       !.arg = IF stack[t][i].reads = 0 THEN NIL ELSE @,
                       !.second = NIL])
    /\ UNCHANGED <<value, heap, ret, killed, atomState, sharedrefState>>

\* What the body's next step sends: the pointer it received, nil, or a
\* pointer to a new T, one more than the T it received a pointer to.
Sent(f) ==
    CASE f.h[f.hpc + 1] = "sendSame" -> f.arg
      [] f.h[f.hpc + 1] = "sendNil" -> NIL
      [] f.h[f.hpc + 1] = "sendSucc" -> DoAlloc

\* current := <-writer, together with the body's portal.Writer <- pointer.
DoRecv(t, i) ==
    /\ CallerAt(t, i, "recv")
    /\ BodyAt(t, i, Sends)
    /\ ~stack[t][i].wclosed
    /\ LET f == stack[t][i]
       IN  /\ f.h[f.hpc + 1] = "sendSucc" => f.arg # NIL
           /\ SetAt(t, i, [f EXCEPT !.pc = AfterPc(f.impl, f.pc), !.hpc = @ + 1,
                                    !.new = Sent(f)])
           /\ heap' = IF f.h[f.hpc + 1] = "sendSucc"
                         THEN [heap EXCEPT ![DoAlloc] = heap[f.arg] + 1]
                         ELSE heap
    /\ UNCHANGED <<value, ret, killed, atomState, sharedrefState>>

\* The body's 'value := *pointer' of a nil pointer panics, and nothing
\* recovers it.
BodyNilDereference(t, i) ==
    /\ BodyAt(t, i, {"sendSucc"})
    /\ stack[t][i].arg = NIL
    /\ panics' = panics \cup {<<"goroutine", "nil pointer dereference">>}
    /\ UNCHANGED <<value, heap, stack, ret, killed, atomState, lsMutex, lsLocking,
                   lsSwapping, useCounter, contentionHandlers, order, deadlocked,
                   kind, input, output, index, locker, events, group>>

\* DoStore leaving the cell as it is when the body has called Do(): the
\* value that the inner call stored stays.
DoStore_InnerWins(t, i) ==
    /\ CallerAt(t, i, "store")
    /\ value' = IF stack[t][i].sub.op = "Do"
                   THEN value
                   ELSE [value EXCEPT ![stack[t][i].this.state] = stack[t][i].new]
    /\ Advance(t, i)
    /\ UNCHANGED <<heap, ret, killed, atomState, sharedrefState>>

\* *this.state = current
DoStore(t, i) ==
    /\ CallerAt(t, i, "store")
    /\ value' = [value EXCEPT ![stack[t][i].this.state] = stack[t][i].new]
    /\ Advance(t, i)
    /\ UNCHANGED <<heap, ret, killed, atomState, sharedrefState>>

\* DoCloseWriter without close(writer).
DoCloseWriter_Open(t, i) ==
    /\ CallerAt(t, i, "closeWriter")
    /\ Advance(t, i)
    /\ UNCHANGED <<value, heap, ret, killed, atomState, sharedrefState>>

\* close(writer)
DoCloseWriter(t, i) ==
    /\ CallerAt(t, i, "closeWriter")
    /\ SetAt(t, i, [stack[t][i] EXCEPT !.pc = Following(t, i), !.wclosed = TRUE])
    /\ UNCHANGED <<value, heap, ret, killed, atomState, sharedrefState>>

\* The body's 'defer func() { recover() }()'
BodyDefer(t, i) ==
    /\ BodyAt(t, i, {"recover"})
    /\ SetAt(t, i, [stack[t][i] EXCEPT !.hpc = @ + 1])
    /\ UNCHANGED <<value, heap, ret, killed, atomState, sharedrefState>>

\* The body's portal.Writer <- pointer on the closed Writer panics; the
\* deferred function, if the body has one by then, recovers and the body
\* returns.
BodySendClosed(t, i) ==
    /\ BodyAt(t, i, Sends)
    /\ stack[t][i].wclosed
    /\ LET f == stack[t][i]
           deferred == \E j \in 1..f.hpc : f.h[j] = "recover"
       IN  /\ panics' = panics \cup
                  {<<IF deferred THEN "body" ELSE "goroutine",
                     "send on closed channel">>}
           /\ SetAt(t, i, [f EXCEPT !.hpc = IF deferred THEN Len(f.h) ELSE @,
                                    !.recovered = deferred])
    /\ UNCHANGED <<value, heap, ret, killed, atomState, lsMutex, lsLocking,
                   lsSwapping, useCounter, contentionHandlers, order, deadlocked,
                   kind, input, output, index, locker, events, group>>

\* The event that DoReadWrite() builds, as the callback of
\* Test_AtomGroup_OnReadWrite reads it: *event.Previous, and *event.Current
\* or -1 for nil.
ReadWriteEvent(name, previous, current) ==
    [GroupName |-> group.name, AtomName |-> name, Previous |-> heap[previous],
     Current |-> IF current = NIL THEN -1 ELSE heap[current]]

\* DoReadWrite(): 'if this.onReadWrite != nil' the callback is given the
\* event.
DoReadWrite(name, previous, current) ==
    IF group.onReadWrite
       THEN events' = Append(events, ReadWriteEvent(name, previous, current))
       ELSE UNCHANGED events

\* DoNotify giving the callback its event twice.
DoNotify_Twice(t, i) ==
    /\ CallerAt(t, i, "notify")
    /\ LET f == stack[t][i]
       IN  IF f.this.group /\ f.this.name # "" /\ group.onReadWrite
              THEN /\ f.prev # NIL
                   /\ events' = Append(Append(events,
                                   ReadWriteEvent(f.this.name, f.prev, f.new)),
                                   ReadWriteEvent(f.this.name, f.prev, f.new))
              ELSE UNCHANGED events
    /\ Advance(t, i)
    /\ UNCHANGED <<value, heap, ret, killed, atomState, lsMutex, lsLocking,
                   lsSwapping, useCounter, contentionHandlers, order, deadlocked,
                   kind, input, output, index, locker, group, panics>>

\* if this.group != nil && this.name != nil { this.group.DoReadWrite(...) }
DoNotify(t, i) ==
    /\ CallerAt(t, i, "notify")
    /\ LET f == stack[t][i]
       IN  IF f.this.group /\ f.this.name # ""
              THEN /\ group.onReadWrite => f.prev # NIL
                   /\ DoReadWrite(f.this.name, f.prev, f.new)
              ELSE UNCHANGED events
    /\ Advance(t, i)
    /\ UNCHANGED <<value, heap, ret, killed, atomState, lsMutex, lsLocking,
                   lsSwapping, useCounter, contentionHandlers, order, deadlocked,
                   kind, input, output, index, locker, group, panics>>

\* Atom.Do(): locker.Unlock()
DoUnlock(t, i) ==
    /\ CallerAt(t, i, "unlock")
    /\ locker' = [locker EXCEPT ![stack[t][i].locker] = FALSE]
    /\ Advance(t, i)
    /\ UNCHANGED <<value, heap, ret, killed, atomState, lsMutex, lsLocking,
                   lsSwapping, useCounter, contentionHandlers, order, deadlocked,
                   kind, input, output, index, events, group, panics>>

\* The body returns.
BodyReturn(t, i) ==
    /\ Doing(t, i)
    /\ i = Depth(t)
    /\ stack[t][i].bpc = "run"
    /\ stack[t][i].hpc = Len(stack[t][i].h)
    /\ SetAt(t, i, [stack[t][i] EXCEPT !.bpc = "done"])
    /\ UNCHANGED <<value, heap, ret, killed, atomState, sharedrefState>>

\* wg.Done() in the body's goroutine, which then ends (Atom.Do()) or goes on
\* to locker.Unlock() (SharedRef.Do()).
BodyWgDone(t, i) ==
    /\ Doing(t, i)
    /\ stack[t][i].bpc = "done"
    /\ SetAt(t, i, [stack[t][i] EXCEPT
                       !.bpc = IF stack[t][i].impl = "sharedref" THEN "unlock" ELSE "end"])
    /\ UNCHANGED <<value, heap, ret, killed, atomState, sharedrefState>>

\* SharedRef.Do(): locker.Unlock() in the body's goroutine, which then ends;
\* a Do() that has returned by then is no more.
BodyUnlock(t, i) ==
    /\ Doing(t, i)
    /\ stack[t][i].bpc = "unlock"
    /\ locker' = [locker EXCEPT ![stack[t][i].locker] = FALSE]
    /\ IF stack[t][i].pc = "returned"
          THEN stack' = [stack EXCEPT ![t] = SubSeq(@, 1, i - 1)]
          ELSE SetAt(t, i, [stack[t][i] EXCEPT !.bpc = "end"])
    /\ UNCHANGED <<value, heap, ret, killed, atomState, lsMutex, lsLocking,
                   lsSwapping, useCounter, contentionHandlers, order, deadlocked,
                   kind, input, output, index, events, group, panics>>

\* wg.Wait() returns once wg.Done() has been called, and Do() returns.
DoWait(t, i) ==
    /\ CallerAt(t, i, "wait")
    /\ i = Depth(t)
    /\ stack[t][i].bpc = "end"
    /\ killed' = (killed \/ stack[t][i].new = NIL)
    /\ DoReturn(t, DoResult(stack[t][i]))
    /\ UNCHANGED <<value, heap, atomState, sharedrefState>>

\* SharedRef.Do(): wg.Wait() returns, and Do() with it, while the body's
\* goroutine has still to unlock the locker.
DoWaitEarly(t, i) ==
    /\ CallerAt(t, i, "wait")
    /\ i = 1 /\ Depth(t) = 1
    /\ stack[t][i].bpc = "unlock"
    /\ killed' = (killed \/ stack[t][i].new = NIL)
    /\ SetAt(t, i, [stack[t][i] EXCEPT !.pc = "returned"])
    /\ ret' = [ret EXCEPT ![t] = DoResult(stack[t][i])]
    /\ UNCHANGED <<value, heap, atomState, sharedrefState>>

\* The callback's '*event.Previous' of a nil Previous panics in the caller's
\* goroutine, and nothing recovers it.
DoNotifyNil(t, i) ==
    /\ CallerAt(t, i, "notify")
    /\ stack[t][i].this.group /\ stack[t][i].this.name # ""
    /\ group.onReadWrite
    /\ stack[t][i].prev = NIL
    /\ panics' = panics \cup {<<"goroutine", "nil pointer dereference">>}
    /\ UNCHANGED <<value, heap, stack, ret, killed, atomState, lsMutex, lsLocking,
                   lsSwapping, useCounter, contentionHandlers, order, deadlocked,
                   kind, input, output, index, locker, events, group>>

\* SharedRef.Do(): locker.Lock() in the body's goroutine, before the body.
BodyLock(t, i) ==
    /\ Doing(t, i)
    /\ stack[t][i].bpc = "lock"
    /\ ~locker[stack[t][i].locker]
    /\ locker' = [locker EXCEPT ![stack[t][i].locker] = TRUE]
    /\ SetAt(t, i, [stack[t][i] EXCEPT !.bpc = "run", !.calls = @ + 1])
    /\ UNCHANGED <<value, heap, ret, killed, atomState, lsMutex, lsLocking,
                   lsSwapping, useCounter, contentionHandlers, order, deadlocked,
                   kind, input, output, index, events, group, panics>>

\* The state in which a handle of kind k (New() of an int or of a pointer,
\* Dead(), a zero value, or none yet) and of group g, if any, is called.
InitDo(k, g) ==
    /\ kind = k
    /\ value = [c \in Cells |-> IF c = 1 /\ k = "Int" THEN 1 ELSE NIL]
    /\ heap = [a \in Addr |-> 0]
    /\ killed = (k \in {"Ptr", "Dead"})
    /\ group = g
    /\ locker = [l \in Lockers |-> FALSE]
    /\ events = <<>>
    /\ panics = {}
    /\ stack = [t \in Threads |-> <<>>]
    /\ ret = [t \in Threads |-> NoRet]
    /\ lsMutex = FALSE
    /\ lsLocking = FALSE
    /\ lsSwapping = FALSE
    /\ useCounter = 0
    /\ contentionHandlers = <<>>
    /\ order = <<>>
    /\ deadlocked = FALSE
    /\ NoExtract
    /\ NoAtom

\* NewAtomGroup("group-1"), with or without OnReadWrite(callback).
Groups == {[name |-> "group-1", onReadWrite |-> b] : b \in BOOLEAN}

\* The caller's side of Atom.Do().
DoCaller(t, i) ==
    \/ DoIsDead(t, i)
    \/ DoGo(t, i)
    \/ DoLock(t, i)
    \/ DoLoad(t, i)
    \/ DoSend(t, i)
    \/ DoCloseReader(t, i)
    \/ DoRecv(t, i)
    \/ DoStore(t, i)
    \/ DoCloseWriter(t, i)
    \/ DoNotify(t, i)
    \/ DoUnlock(t, i)
    \/ DoWait(t, i)

\* Test_Atom_Do_Atomicity and Test_AtomGroup_OnReadWrite: every goroutine
\* calls Do() once, all with one locker and with a body that sends back a
\* pointer to what it received plus one, on an Atom made by New(0) or by
\* group.New("atom-1", 0).
InitDoAtomicity == \E g \in {NoGroup} \cup Groups : InitDo("Int", g)

NextDoAtomicity ==
    \E t \in Threads :
        \/ ret[t] = NoRet /\ DoCall(t, "atom", 1, Inc)
        \/ \E i \in 1..Depth(t) :
              \/ DoCaller(t, i)
              \/ BodyReturn(t, i)
              \/ BodyWgDone(t, i)

SpecDoAtomicity == InitDoAtomicity /\ [][NextDoAtomicity]_vars

\* Test_Do_Atomicity of package sharedref: every goroutine calls
\* SharedRef.Do() once, all with one locker and with a body that sends back
\* a pointer to what it received plus one, on a SharedRef made by New(0).
InitDoInBody == InitDo("Int", NoGroup)

NextDoInBody ==
    \E t \in Threads :
        \/ ret[t] = NoRet /\ DoCall(t, "sharedref", 1, Inc)
        \/ \E i \in 1..Depth(t) :
              \/ DoIsDead(t, i)
              \/ DoGo(t, i)
              \/ BodyLock(t, i)
              \/ DoLoad(t, i)
              \/ DoSend(t, i)
              \/ DoCloseReader(t, i)
              \/ DoRecv(t, i)
              \/ DoStore(t, i)
              \/ DoCloseWriter(t, i)
              \/ BodyReturn(t, i)
              \/ BodyWgDone(t, i)
              \/ BodyUnlock(t, i)
              \/ DoWait(t, i)
              \/ DoWaitEarly(t, i)

SpecDoInBody == InitDoInBody /\ [][NextDoInBody]_vars

\* The single-goroutine tests of Do(): the goroutines call Atom.Do() once
\* each, one after the other, with any of the bodies, on an Atom made by
\* New() or group.New() of an int or of a pointer, or by Dead().
InitDoSequential ==
    \E k \in {"Int", "Ptr", "Dead"}, g \in {NoGroup} \cup Groups : InitDo(k, g)

DoCallAlone(t, h) ==
    /\ \A u \in Threads : Depth(u) = 0
    /\ ret[t] = NoRet
    /\ DoCall(t, "atom", 1, h)

NextDoSequential ==
    \E t \in Threads :
        \/ \E h \in Bodies : DoCallAlone(t, h)
        \/ \E i \in 1..Depth(t) :
              \/ DoCaller(t, i)
              \/ BodyRecvClosed(t, i)
              \/ BodyDefer(t, i)
              \/ BodySendClosed(t, i)
              \/ BodyReturn(t, i)
              \/ BodyWgDone(t, i)

SpecDoSequential == InitDoSequential /\ [][NextDoSequential]_vars

\* The tests of package sharef: a Sharef is declared, as a zero value or as
\* the result of New() of an int or of a pointer, in a group or not, and the
\* goroutines call Do() on it once each, one after the other.
InitSharef ==
    /\ \E k \in {"Zero", "None"}, g \in {NoGroup} \cup Groups : InitDo(k, g)

SharefCallAlone(t, h) ==
    /\ \A u \in Threads : Depth(u) = 0
    /\ ret[t] = NoRet
    /\ kind \in {"Int", "Zero"}
    /\ DoCall(t, "sharef", 1, h)

NextSharef ==
    \/ \E k \in {"Int", "Ptr"} : SharefNew(k)
    \/ \E t \in Threads :
          \/ \E h \in {Inc, Same, Kill} : SharefCallAlone(t, h)
          \/ \E i \in 1..Depth(t) :
                \/ SharefIsNil(t, i)
                \/ DoGo(t, i)
                \/ DoLoad(t, i)
                \/ DoSend(t, i)
                \/ DoCloseReader(t, i)
                \/ DoRecv(t, i)
                \/ DoStore(t, i)
                \/ DoCloseWriter(t, i)
                \/ DoNotify(t, i)
                \/ BodyReturn(t, i)
                \/ BodyWgDone(t, i)
                \/ DoWait(t, i)

SpecSharef == InitSharef /\ [][NextSharef]_vars

-----------------------------------------------------------------------------
\* Package box's Atom (src/atom.go): a cell guarded by a sync.Mutex alone.
\* Use() and Swap() take the mutex with Lock(), and only then look whether
\* the Atom is dead.  Their frames stand at these places:
\*   Use:  lock, isDead, invoke, body, unlock
\*   Swap: lock, isDead, invoke, body, store, unlock
\* The handlers are those of the tests: a Use() handler increments the int
\* in place (inc), a Swap() handler returns a pointer to a new int, its
\* argument's plus one (succ), or returns nil (kill).

\* The Atom that NewAtom() returned: the addresses of its mutex and of its
\* cell.
boxAtom == [mutex |-> 1, value |-> 1]

BoxHandlers(op) ==
    IF op = "Use" THEN {<<"inc">>} ELSE {<<"succ">>, <<"kill">>}

\* Test_Atomicity's goroutine: it calls Use(), and when that has returned,
\* Swap().
BoxCall(t, op) ==
    /\ Depth(t) = 0
    /\ \/ op = "Use" /\ ret[t] = NoRet
       \/ op = "Swap" /\ ret[t].op = "Use"
    /\ stack' = [stack EXCEPT ![t] = <<[Frame(op, boxAtom) EXCEPT !.pc = "lock"]>>]
    /\ UNCHANGED <<value, heap, ret, killed, atomState, sharedrefState>>

\* BoxLock with a Lock() that does not wait.
BoxLock_NoWait(t) ==
    /\ Depth(t) > 0
    /\ Top(t).this = boxAtom
    /\ Top(t).pc = "lock"
    /\ mutex' = [mutex EXCEPT ![Top(t).this.mutex] = TRUE]
    /\ Goto(t, "isDead")
    /\ UNCHANGED <<value, heap, lockedByUse, lockedBySwap, killed, sharedrefState>>

\* this.mutex.Lock(): the goroutine waits until the mutex is unlocked.
BoxLock(t) ==
    /\ Depth(t) > 0
    /\ Top(t).this = boxAtom
    /\ Top(t).pc = "lock"
    /\ ~mutex[Top(t).this.mutex]
    /\ mutex' = [mutex EXCEPT ![Top(t).this.mutex] = TRUE]
    /\ Goto(t, "isDead")
    /\ UNCHANGED <<value, heap, lockedByUse, lockedBySwap, killed, sharedrefState>>

\* if !this.IsDead() { ... }: a dead Atom takes the call to its deferred
\* Unlock().
BoxIsDead(t) ==
    /\ Depth(t) > 0
    /\ Top(t).this = boxAtom
    /\ Top(t).pc = "isDead"
    /\ Goto(t, IF IsDead(Top(t).this) THEN "unlock" ELSE "invoke")
    /\ UNCHANGED <<value, heap, atomState, killed, sharedrefState>>

\* handler(*this.value): the pointer is read and the handler entered.
BoxInvoke(t, op, h) ==
    /\ At(t, op, "invoke")
    /\ Top(t).this = boxAtom
    /\ SetTop(t, [Top(t) EXCEPT !.pc = "body", !.h = h, !.arg = Load(Top(t).this),
                                !.calls = @ + 1])
    /\ UNCHANGED <<value, heap, atomState, ret, killed, sharedrefState>>

\* Use(): the handler returns.
BoxUseHandlerReturn(t) ==
    /\ BodyDone(t, "Use")
    /\ Top(t).this = boxAtom
    /\ Goto(t, "unlock")
    /\ UNCHANGED <<value, heap, atomState, killed, sharedrefState>>

\* Swap(): the handler returns newValue: nil, or a pointer to a new int, one
\* more than the int its argument points to.
BoxSwapHandlerReturn(t) ==
    /\ BodyDone(t, "Swap")
    /\ Top(t).this = boxAtom
    /\ LET f == Top(t)
       IN  IF f.h[1] = "kill"
              THEN /\ SetTop(t, [f EXCEPT !.pc = "store", !.new = NIL])
                   /\ UNCHANGED heap
              ELSE /\ SetTop(t, [f EXCEPT !.pc = "store", !.new = Alloc])
                   /\ heap' = [heap EXCEPT ![Alloc] = heap[f.arg] + 1]
    /\ UNCHANGED <<value, atomState, ret, killed, sharedrefState>>

\* *this.value = newValue
BoxSwapStore(t) ==
    /\ At(t, "Swap", "store")
    /\ Top(t).this = boxAtom
    /\ value' = [value EXCEPT ![Top(t).this.value] = Top(t).new]
    /\ Goto(t, "unlock")
    /\ UNCHANGED <<heap, atomState, killed, sharedrefState>>

\* Deferred: this.mutex.Unlock(); the call returns.
BoxUnlock(t) ==
    /\ Depth(t) > 0
    /\ Top(t).this = boxAtom
    /\ Top(t).pc = "unlock"
    /\ mutex' = [mutex EXCEPT ![Top(t).this.mutex] = FALSE]
    /\ killed' = (killed \/ (Top(t).op = "Swap" /\ Top(t).calls > 0 /\ Top(t).new = NIL))
    /\ Return(t, Top(t).calls > 0)
    /\ UNCHANGED <<value, heap, lockedByUse, lockedBySwap, sharedrefState>>

\* NewAtom(&i) of an int i = 0, or NewAtom(c) of a pointer to a pointer,
\* which is dead.
InitBox == \E k \in {"Int", "Ptr"} : InitDo(k, NoGroup)

\* Goroutines that each call Use() and then Swap(), with any of the
\* handlers.
NextBox ==
    \E t \in Threads :
        \/ \E op \in AtomOps : BoxCall(t, op)
        \/ BoxLock(t)
        \/ BoxIsDead(t)
        \/ \E op \in AtomOps : \E h \in BoxHandlers(op) : BoxInvoke(t, op, h)
        \/ HandlerRead(t)
        \/ HandlerWrite(t)
        \/ BoxUseHandlerReturn(t)
        \/ BoxSwapHandlerReturn(t)
        \/ BoxSwapStore(t)
        \/ BoxUnlock(t)

SpecBox == InitBox /\ [][NextBox]_vars

-----------------------------------------------------------------------------
\* The calls in progress, as <<goroutine, depth>>.
Frames == {p \in Threads \X (1..MaxDepth) : p[2] <= Len(stack[p[1]])}

FrameAt(p) == stack[p[1]][p[2]]

\* The results that have been returned and are still on record.
Results ==
    {ret[t] : t \in Threads} \cup {ret[t].sub : t \in Threads}
    \cup {FrameAt(p).sub : p \in Frames}

\* C1: no handler of Use(), Locking() or Swap() is invoked while the cell's
\* value is nil: every call that has invoked its handler found the cell
\* alive at that moment.
C1_NoHandlerInvokedWhileDead ==
    \A p \in Frames : FrameAt(p).calls > 0 => FrameAt(p).arg # NIL

\* C2: dead is terminal: no step takes the cell's value from nil to non-nil.
C2_DeadIsTerminal == [][IsDead(sharedref) => IsDead(sharedref)']_vars

\* C3: whenever lsSwapping is true, useCounter is 0.
C3_SwappingExcludesUse == lsSwapping => useCounter = 0

\* The Locking() and Swap() handler bodies that are executing.
ExclusiveBodies ==
    {p \in Frames : FrameAt(p).op \in {"Locking", "Swap"} /\ FrameAt(p).pc = "body"}

\* C4: at most one Locking() or Swap() handler body is executing at any
\* instant.
C4_OneExclusiveBody == Cardinality(ExclusiveBodies) <= 1

\* C4's case: one goroutine is inside a Locking() or Swap() body while
\* another has tried the mutex, failed, and is waiting for it.
C4_Witness ==
    \E p \in ExclusiveBodies : \E q \in Frames :
        q[1] # p[1] /\ FrameAt(q).pc = "sleep"

\* C5: once N concurrent Swap() calls, each returning its argument plus one,
\* have returned, all returned true and the cell holds N.
C5_SwapIsAtomic ==
    AllReturned =>
        /\ \A t \in Threads : ret[t].res /\ ret[t].calls = 1
        /\ IsAlive(sharedref)
        /\ heap[Load(sharedref)] = NThreads

\* C5's case: all N Swap() calls have returned true.
C5_Witness == AllReturned /\ \A t \in Threads : ret[t].op = "Swap" /\ ret[t].res

\* C6: when N concurrent Use(ptr -> Locking(increment; record)) calls have
\* returned and no contention handler gave up, every Use() and Locking()
\* returned true and the recorded values are exactly 1..N.
C6_LockingIsAtomic ==
    (AllReturned /\ ~deadlocked) =>
        /\ \A t \in Threads : ret[t].res /\ ret[t].sub.res
        /\ Len(order) = NThreads
        /\ {order[i] : i \in 1..Len(order)} = 1..NThreads

\* C6's case: all N calls have returned without a giveUp.
C6_Witness ==
    /\ AllReturned
    /\ ~deadlocked
    /\ \A t \in Threads : ret[t].op = "Use" /\ ret[t].sub.op = "Locking"

\* C7: once N concurrent Use() calls that increment the int have returned,
\* every call returned true and the int is at least 1 and at most N.
C7_UseGivesNoIsolation ==
    AllReturned =>
        /\ \A t \in Threads : ret[t].res
        /\ IsAlive(sharedref)
        /\ heap[Load(sharedref)] \in 1..NThreads

\* C7's case: all N calls returned and an increment was lost.
C7_Witness == AllReturned /\ IsAlive(sharedref) /\ heap[Load(sharedref)] < NThreads

\* No other goroutine has a call in progress.
OthersIdle(t) == \A u \in Threads \ {t} : Depth(u) = 0

\* C8: a call returns true if and only if its handler was invoked, exactly
\* once; and a call that is not waiting for the mutex never returns false
\* while the cell is alive and idle.
C8_ResultIffInvoked ==
    /\ [](/\ \A r \in Results : r.op # "none" => (r.res <=> r.calls = 1)
          /\ \A p \in Frames : FrameAt(p).calls <= 1)
    /\ [][\A t \in Threads :
            (/\ Depth(t) = 1
             /\ Top(t).pc # "sleep"
             /\ IsAlive(sharedref)
             /\ OthersIdle(t)
             /\ Len(stack'[t]) = 0) => ret'[t].res]_vars

\* C8's cases: one goroutine's call ran its handler and returned true while
\* another's was rejected or gave up and returned false.
C8_Witness ==
    \E t, u \in Threads :
        /\ ret[t].op # "none" /\ ret[t].res /\ ret[t].calls = 1
        /\ ret[u].op # "none" /\ ~ret[u].res /\ ret[u].calls = 0

\* C9: a call that starts after a Swap() whose handler returned nil has
\* returned (or on a handle built by Dead()) returns false and never invokes
\* its handler.
C9_LateCallsRejected ==
    /\ \A r \in Results : r.late => (~r.res /\ r.calls = 0)
    /\ \A p \in Frames : FrameAt(p).late => FrameAt(p).calls = 0

\* The Use() and Locking() calls made from inside a Swap() handler.
InsideSwap ==
    {p \in Frames : /\ p[2] > 1
                    /\ FrameAt(p).op \in {"Use", "Locking"}
                    /\ stack[p[1]][p[2] - 1].op = "Swap"}

CalledUseOrLocking(r) == r.op = "Swap" /\ r.sub.op \in {"Use", "Locking"}

\* C10: a Use() or Locking() call made from inside a Swap() handler never
\* gets past its precondition (it neither waits for the mutex nor invokes its
\* handler) and returns false, and the outer Swap() returns true.
C10_UseAndLockingInsideSwapRejected ==
    /\ \A p \in InsideSwap :
          FrameAt(p).pc \in {"isDead", "isSwapping"} /\ FrameAt(p).calls = 0
    /\ \A p \in Frames :
          CalledUseOrLocking(FrameAt(p)) =>
              ~FrameAt(p).sub.res /\ FrameAt(p).sub.calls = 0
    /\ \A t \in Threads :
          CalledUseOrLocking(ret[t]) =>
              ret[t].res /\ ~ret[t].sub.res /\ ret[t].sub.calls = 0

\* C10's cases: a Swap() whose handler called Use() and a Swap() whose
\* handler called Locking() have both returned.
C10_Witness ==
    \E t, u \in Threads :
        /\ ret[t].op = "Swap" /\ ret[t].sub.op = "Use"
        /\ ret[u].op = "Swap" /\ ret[u].sub.op = "Locking"

\* The Swap() calls made from inside a Use() or a Locking() handler.
SwapInside ==
    {p \in Frames : /\ p[2] > 1
                    /\ FrameAt(p).op = "Swap"
                    /\ stack[p[1]][p[2] - 1].op \in {"Use", "Locking"}}

CalledSwap(r) == r.op \in {"Use", "Locking"} /\ r.sub.op = "Swap"

\* C11: a Swap() call made from inside a Use() or a Locking() handler never
\* gets past its precondition (it neither tries the mutex nor invokes its
\* handler) and returns false, and the outer Use() or Locking() returns true.
C11_SwapInsideUseOrLockingRejected ==
    /\ \A p \in SwapInside :
          FrameAt(p).pc \in {"isDead", "isLocking", "useCount"} /\ FrameAt(p).calls = 0
    /\ \A p \in Frames :
          CalledSwap(FrameAt(p)) =>
              ~FrameAt(p).sub.res /\ FrameAt(p).sub.calls = 0
    /\ \A t \in Threads :
          CalledSwap(ret[t]) =>
              ret[t].res /\ ~ret[t].sub.res /\ ret[t].sub.calls = 0

\* C11's cases: a Use() whose handler called Swap() and a Locking() whose
\* handler called Swap() have both returned.
C11_Witness ==
    \E t, u \in Threads :
        /\ ret[t].op = "Use" /\ ret[t].sub.op = "Swap"
        /\ ret[u].op = "Locking" /\ ret[u].sub.op = "Swap"

\* The Locking() and Swap() calls in progress, wherever they stand.
ExclusiveCalls == {p \in Frames : FrameAt(p).op \in {"Locking", "Swap"}}

Moves(t) == stack'[t] # stack[t]

\* C17: the cell goes from alive to dead only by the store of a Swap() whose
\* handler returned nil; that Swap() returns true, into a state where
\* IsDead() is true.  No other step changes whether the cell is alive: not
\* one of Use(), of Locking(), of a rejected call or of a call that gave up.
C17_OnlyNilSwapKills ==
    [][/\ (IsDead(sharedref)' # IsDead(sharedref)) =>
              \E t \in Threads :
                  At(t, "Swap", "store") /\ Top(t).calls = 1 /\ Moves(t)
       /\ (IsAlive(sharedref) /\ IsDead(sharedref)') =>
              \E t \in Threads :
                  /\ At(t, "Swap", "store")
                  /\ Top(t).h = <<"kill">>
                  /\ Top(t).new = NIL
                  /\ Moves(t)
       /\ \A t \in Threads :
              (At(t, "Swap", "unlock") /\ Top(t).h = <<"kill">> /\ Moves(t)) =>
                  /\ IsDead(sharedref)'
                  /\ IF Depth(t) = 1
                        THEN ret'[t].res
                        ELSE stack'[t][Depth(t) - 1].sub.res]_vars

\* C17's case: a cell that New() made alive is dead after a Swap() whose
\* handler returned nil has returned true.
C17_Witness ==
    /\ kind = "Int"
    /\ killed
    /\ IsDead(sharedref)
    /\ \E t \in Threads : ret[t].op = "Swap" /\ ret[t].res /\ Depth(t) = 0

\* The nestings that the SharedRef accepts, as <<outer, inner>>.
Accepted == {<<"Use", "Use">>, <<"Locking", "Use">>, <<"Use", "Locking">>}

\* The calls made from inside the handler of a goroutine's outermost call,
\* where the two make an accepted nesting.
AcceptedInside ==
    {p \in Frames : /\ p[2] = 2
                    /\ <<stack[p[1]][1].op, FrameAt(p).op>> \in Accepted}

\* C12: when one goroutine at a time uses the SharedRef, a Use() inside a
\* Use() handler, a Use() inside a Locking() handler and a Locking() inside a
\* Use() handler are accepted: the inner call never waits for the mutex (so
\* that no contention handler is needed for it to end), both handlers are
\* invoked, and both calls return true.
C12_AcceptedNestings ==
    /\ \A p \in AcceptedInside :
          FrameAt(p).pc # "sleep" /\ stack[p[1]][1].calls = 1
    /\ \A t \in Threads :
          (Depth(t) = 1 /\ <<Top(t).op, Top(t).sub.op>> \in Accepted) =>
              Top(t).sub.res /\ Top(t).sub.calls = 1
    /\ \A t \in Threads :
          <<ret[t].op, ret[t].sub.op>> \in Accepted =>
              /\ ret[t].res /\ ret[t].calls = 1
              /\ ret[t].sub.res /\ ret[t].sub.calls = 1

\* C12's case: a Locking() whose handler called Use() has returned, on a
\* cell that has no contention handler.
C12_Witness ==
    /\ contentionHandlers = <<>>
    /\ \E t \in Threads :
          /\ ret[t].op = "Locking" /\ ret[t].sub.op = "Use"
          /\ ret[t].res /\ ret[t].sub.res

\* Goroutine t's outermost call is op and its handler has called op again.
SelfNested(t, op) ==
    /\ Depth(t) = 2
    /\ stack[t][1].op = op
    /\ Top(t).op = op

\* Goroutine t's outermost call returned true, and the call of the same
\* operation that its handler made returned false without invoking its own.
OuterDone(t, op) ==
    /\ Depth(t) = 0
    /\ ret[t].op = op /\ ret[t].res /\ ret[t].calls = 1
    /\ ret[t].sub.op = op /\ ~ret[t].sub.res /\ ret[t].sub.calls = 0

\* C13: when one goroutine at a time uses a SharedRef whose contention
\* handler gives up past a threshold, a Locking() called from inside a
\* Locking() handler, and a Swap() called from inside a Swap() handler, gets
\* past its precondition to the mutex, never obtains it and never invokes its
\* handler; it returns false only by giveUp; and the outer call then ends,
\* returning true.
C13_SelfNestingEndsByGiveUp ==
    /\ [](\A t \in Threads : \A op \in {"Locking", "Swap"} :
            /\ SelfNested(t, op) =>
                  /\ Top(t).calls = 0
                  /\ Top(t).pc \in {"isDead", "isSwapping", "isLocking", "useCount",
                                    "tryLock", "sleep"}
            /\ (ret[t].op = op /\ ret[t].sub.op = op) =>
                  OuterDone(t, op) /\ deadlocked)
    /\ [][\A t \in Threads : \A op \in {"Locking", "Swap"} :
            (SelfNested(t, op) /\ Len(stack'[t]) = 1) => Top(t).pc = "sleep"]_vars
    /\ \A t \in Threads : \A op \in {"Locking", "Swap"} :
          (SelfNested(t, op) /\ contentionHandlers = <<"timeout">>)
              ~> (SelfNested(t, op) /\ Top(t).pc = "sleep")
    /\ \A t \in Threads : \A op \in {"Locking", "Swap"} :
          (SelfNested(t, op) /\ contentionHandlers = <<"timeout">>)
              ~> OuterDone(t, op)

\* C13's case: a Swap() whose handler called Swap() has returned true after
\* the inner call gave up.
C13_Witness ==
    /\ contentionHandlers = <<"timeout">>
    /\ deadlocked
    /\ \E t \in Threads : OuterDone(t, "Swap")

\* C15: New() of a value whose kind is pointer-like or map-like returns a
\* SharedRef that is dead: IsDead() is true and IsAlive() is false.
C15_PointerAndMapPayloadsAreDead ==
    kind \in {"Ptr", "Map"} => IsDead(sharedref) /\ ~IsAlive(sharedref)

\* The copies of the SharedRef in existence: the one New() returned and the
\* receivers of the calls in progress.
Copies == {sharedref} \cup {FrameAt(p).this : p \in Frames}

\* The calls that have returned true.
Succeeded == {t \in Threads : ret[t].op # "none" /\ ret[t].res}

\* C16: all copies of a SharedRef share one cell.  When every caller works
\* on its own copy, the Counter that a handler is given holds the increments
\* of all the calls made before it through the other copies, whether they
\* were made in place by Use() or committed by Swap(); when all calls have
\* returned, the original observes them all; and IsDead() and IsAlive() give
\* the same answer on every copy.
C16_CopiesShareOneCell ==
    /\ \A c \in Copies :
          (IsDead(c) <=> IsDead(sharedref)) /\ (IsAlive(c) <=> IsAlive(sharedref))
    /\ \A p \in Frames :
          (FrameAt(p).pc = "body" /\ FrameAt(p).hpc = 0) =>
              /\ FrameAt(p).arg # NIL
              /\ heap[FrameAt(p).arg] = Cardinality(Succeeded)
    /\ killed => IsDead(sharedref)
    /\ IsAlive(sharedref) =>
          /\ \A t \in Threads : ret[t].op # "none" => ret[t].res
          /\ (\A t \in Threads : Depth(t) = 0) =>
                heap[Load(sharedref)] = Cardinality(Succeeded)

\* C16's case: every caller has changed the Counter through its own copy, at
\* least one by Use() and one by Swap(), and the original holds them all.
C16_Witness ==
    /\ AllReturned
    /\ ~killed
    /\ \E t, u \in Threads : ret[t].op = "Use" /\ ret[u].op = "Swap"
    /\ heap[Load(sharedref)] = NThreads

\* The ints of the live SharedRefs of s, in the order of s.
LiveValues(s) ==
    LET live == SelectSeq(s, IsAlive)
    IN  [i \in 1..Len(live) |-> heap[Load(live[i])]]

\* SliceExtract() has returned.
Extracted == index = Len(input) /\ \A t \in Threads : Depth(t) = 0

\* C18: SliceExtract(input) returns the values of the live SharedRefs of the
\* input, in input order, and nothing for the dead ones: its output is as
\* long as the input has live SharedRefs.
C18_SliceExtractLiveInOrder ==
    Extracted =>
        /\ output = LiveValues(input)
        /\ Len(output) = Cardinality({i \in 1..Len(input) : IsAlive(input[i])})

\* C18's case: SliceExtract() has returned two different values for an input
\* of three SharedRefs, the second of them dead.
C18_Witness ==
    /\ Extracted
    /\ Len(input) = 3
    /\ IsDead(input[2])
    /\ Len(output) = 2
    /\ output[1] # output[2]

\* Goroutine t is in a Use() whose handler has called Use() on the Atom's
\* Nest().
NestedUse(t) ==
    /\ Depth(t) >= 2
    /\ stack[t][1].op = "Use"
    /\ stack[t][1].h = <<"call", "Use", "nest">>

\* The handler of that inner Use() is running.
InnerRuns(t) == NestedUse(t) /\ stack[t][2].pc = "body"

\* Both calls have returned true, each having invoked its handler once.
BothUsed(t) ==
    /\ Depth(t) = 0
    /\ ret[t].op = "Use" /\ ret[t].res /\ ret[t].calls = 1
    /\ ret[t].sub.op = "Use" /\ ret[t].sub.res /\ ret[t].sub.calls = 1

\* C19: a Use() on h.Nest() made from inside a Use() handler does not wait
\* for the mutex of the outer call: its receiver has another mutex, its
\* handler is invoked, and when that handler ends both calls return true.
\* (A Use() made from inside a Use() handler returns only if it was made on
\* a Nest().)
C19_NestBreaksSelfNestingDeadlock ==
    /\ [](\A t \in Threads :
            /\ NestedUse(t) =>
                  /\ stack[t][2].this.mutex # stack[t][1].this.mutex
                  /\ stack[t][1].calls = 1
            /\ (ret[t].op = "Use" /\ ret[t].sub.op = "Use") => BothUsed(t))
    /\ \A t \in Threads : (NestedUse(t) /\ stack[t][2].calls = 0) ~> InnerRuns(t)
    /\ \A t \in Threads :
          (InnerRuns(t) /\ stack[t][2].h[1] # "call") ~> BothUsed(t)

\* C19's case: a Use() whose handler called Use() on the Nest() has returned.
C19_Witness == \E t \in Threads : BothUsed(t) /\ IsAlive(atom)

\* A step in which goroutine t calls Nest() and makes a call on the result.
CallsOnNest(t) ==
    /\ Len(stack'[t]) = Depth(t) + 1
    /\ stack'[t][Depth(t) + 1].this # atom

\* C20: an Atom n that h.Nest() returned points to h's cell and to h's
\* lockedBySwap, so that IsDead() is the same on both and the value a Swap()
\* stores through either is the value of both; n's mutex and lockedByUse are
\* new ones, that no other Atom points to, unlocked and false; and Nest()
\* changes no mutex, no flag and no cell.
C20_NestSharesCellOwnsLock ==
    /\ [](\A n \in Atoms :
            /\ n.value = atom.value
            /\ n.lockedBySwap = atom.lockedBySwap
            /\ IsDead(n) <=> IsDead(atom)
            /\ n # atom => n.mutex # atom.mutex /\ n.lockedByUse # atom.lockedByUse)
    /\ [][\A t \in Threads :
            /\ CallsOnNest(t) =>
                  LET n == stack'[t][Depth(t) + 1].this
                  IN  /\ UNCHANGED <<value, mutex, lockedByUse, lockedBySwap>>
                      /\ n.mutex \notin {a.mutex : a \in Atoms}
                      /\ n.lockedByUse \notin {a.lockedByUse : a \in Atoms}
                      /\ ~mutex[n.mutex]
                      /\ ~lockedByUse[n.lockedByUse]
            /\ (At(t, "Swap", "store") /\ Moves(t)) =>
                  \A a \in Atoms : Load(a)' = Top(t).new]_vars

\* C20's case: a Swap() made on h.Nest() from inside a Use() handler of h
\* has stored a new value, which is now the value of h.
C20_Witness ==
    \E t \in Threads :
        /\ Depth(t) = 2
        /\ stack[t][1].this = atom
        /\ Top(t).op = "Swap"
        /\ Top(t).this # atom
        /\ Top(t).pc = "clearFlag"
        /\ Top(t).new # Top(t).arg
        /\ Load(atom) = Top(t).new
        /\ IsAlive(atom)

-----------------------------------------------------------------------------
\* C21: on an Atom h and the Atoms that h.Nest() returns, no Swap() handler
\* runs while a Use() handler is in flight, whichever of them each call was
\* made on, nested in one goroutine or not.
C21_SwapExcludesUseAcrossNest ==
    \A p, q \in Frames :
        ~ /\ FrameAt(p).op = "Swap" /\ FrameAt(p).pc = "body"
          /\ FrameAt(q).op = "Use" /\ FrameAt(q).pc = "body"

\* C29: lsLocking and lsSwapping are never both true, whatever the
\* interleaving of concurrent and nested Use(), Locking() and Swap() calls.
C29_LockingAndSwappingExclusive == ~(lsLocking /\ lsSwapping)

\* C29's case: a Swap() has set lsSwapping while a Locking() that found
\* lsSwapping false before that is waiting for the mutex, or the other way
\* round.
C29_Witness ==
    \E p, q \in Frames :
        /\ p[1] # q[1]
        /\ FrameAt(p).op = "Swap" /\ FrameAt(q).op = "Locking"
        /\ \/ lsSwapping /\ FrameAt(p).pc = "body" /\ FrameAt(q).pc = "sleep"
           \/ lsLocking /\ FrameAt(q).pc = "body" /\ FrameAt(p).pc = "sleep"

\* C30: when one goroutine at a time uses a SharedRef that has no contention
\* handler, a Locking() called from inside a Locking() handler, and a Swap()
\* called from inside a Swap() handler, never returns: the outer call holds
\* the mutex, the inner call gets past its precondition and retries the
\* mutex without ever invoking its handler, and no step ends either call.
C30_SelfNestingWithoutHandlerNeverReturns ==
    /\ [](\A t \in Threads : \A op \in {"Locking", "Swap"} :
            (contentionHandlers = <<>> /\ SelfNested(t, op)) =>
                /\ lsMutex
                /\ ~deadlocked
                /\ Top(t).calls = 0
                /\ Top(t).pc \in {"isDead", "isSwapping", "isLocking", "useCount",
                                  "tryLock", "sleep"})
    /\ [][\A t \in Threads : \A op \in {"Locking", "Swap"} :
            (contentionHandlers = <<>> /\ SelfNested(t, op)) =>
                /\ SelfNested(t, op)'
                /\ stack'[t][1] = stack[t][1]
                /\ ret'[t] = NoRet]_vars

\* C30's case: with no contention handler, a Swap() called from inside a
\* Swap() handler has failed an attempt at the mutex and sleeps.
C30_Witness ==
    /\ contentionHandlers = <<>>
    /\ \E t \in Threads : SelfNested(t, "Swap") /\ Top(t).pc = "sleep"

\* Every goroutine's Do() has returned, each having run the body h.
AllDid(h) == \A t \in Threads : Depth(t) = 0 /\ ret[t].op = "Do" /\ ret[t].h = h

\* C23: once N concurrent Atom.Do() calls with one locker, each with a body
\* that sends back a pointer to the value it received plus one, have returned
\* on an Atom made of 0, every body has run once and the Atom holds N.
C23_DoIsAtomic ==
    AllDid(Inc) =>
        /\ \A t \in Threads : ret[t].calls = 1
        /\ value[Handle.state] # NIL
        /\ heap[value[Handle.state]] = NThreads

\* C23's case: all the calls have returned.
C23_Witness == AllDid(Inc) /\ group = NoGroup

\* C22: the Do() calls on an Atom that group.New("atom-1", 0) made, each with
\* a body that sends back a pointer to the value it received plus one and
\* all with one locker, give the callback that OnReadWrite() registered the
\* events (0,1), (1,2), ... in that order, each with the group's and the
\* Atom's name, one event for each call by the time all have returned; with
\* no callback registered there is no event.
C22_GroupEventsInOrder ==
    /\ \A j \in 1..Len(events) :
          events[j] = [GroupName |-> "group-1", AtomName |-> "atom-1",
                       Previous |-> j - 1, Current |-> j]
    /\ Len(events) > 0 => group.onReadWrite
    /\ (AllDid(Inc) /\ group.onReadWrite) => Len(events) = NThreads

\* C22's case: every call has returned and the callback has had its events.
C22_Witness == AllDid(Inc) /\ Len(events) = NThreads

\* C24: once N concurrent SharedRef.Do() calls with one locker, which the
\* body's goroutine takes, each with a body that sends back a pointer to the
\* value it received plus one, have returned on a SharedRef made of 0, the
\* SharedRef holds N.
C24_DoInBodyIsAtomic ==
    (\A t \in Threads : ret[t].op = "Do" /\ ret[t].impl = "sharedref") =>
        /\ value[Handle.state] # NIL
        /\ heap[value[Handle.state]] = NThreads

\* C25: a Do() called on a dead Atom returns without having started its
\* body, taken the locker or notified the group, and the Atom stays dead.
C25_DoOnDeadDoesNothing ==
    /\ [](\A t \in Threads :
            /\ (Depth(t) > 0 /\ Top(t).late) =>
                  /\ Top(t).pc = "isDead"
                  /\ Top(t).bpc = "idle"
                  /\ Top(t).calls = 0
                  /\ ~locker[Top(t).locker]
                  /\ StateIsDead(Handle)
            /\ (ret[t].op = "Do" /\ ret[t].late) =>
                  /\ ret[t].calls = 0
                  /\ ret[t].reads = 0
                  /\ StateIsDead(Handle))
    /\ [][\A t \in Threads :
            (Depth(t) > 0 /\ Top(t).late) =>
                /\ UNCHANGED <<value, heap, locker, events, panics>>
                /\ Depth(t)' = 0]_vars

\* C25's case: a Do() on an Atom that group.New() made of a pointer, with a
\* callback registered, has returned.
C25_Witness ==
    /\ kind = "Ptr"
    /\ group.onReadWrite
    /\ \E t \in Threads : ret[t].op = "Do" /\ ret[t].late /\ ret[t].h = Inc

\* The caller of frame i has got as far as one of pcs.
Passed(f, pcs) == f.op = "Do" /\ f.pc \in pcs

\* C26: in a Do() on a live Atom, the body's first receive from Reader
\* yields the Atom's value, which is not nil; Reader is closed once that
\* value has been sent, and every later receive yields nil; the value of the
\* body's first send on Writer becomes the Atom's value; Writer is closed
\* once that value has been received, and a second send panics; and a Do()
\* that follows runs its body on the value that was stored.
C26_ReaderAndWriterAreSingleUse ==
    \A t \in Threads :
        /\ Depth(t) > 0 =>
              LET f == Top(t)
              IN  /\ f.reads >= 1 => f.arg = f.prev /\ f.arg # NIL
                  /\ Passed(f, {"send"}) => f.prev = value[f.this.state]
                  /\ Passed(f, {"recv", "store", "closeWriter", "notify", "unlock",
                                "wait"}) => f.rclosed /\ f.reads >= 1
                  /\ f.reads >= 2 => f.second = NIL
                  /\ Passed(f, {"closeWriter", "notify", "unlock", "wait"}) =>
                        value[f.this.state] = f.new
                  /\ Passed(f, {"notify", "unlock", "wait"}) => f.wclosed
                  /\ (f.h = Twice /\ f.bpc \in {"done", "end"}) =>
                        /\ f.recovered
                        /\ f.reads = 2
                        /\ f.pc \in {"notify", "unlock", "wait"}
                        /\ <<"body", "send on closed channel">> \in panics
                  /\ (f.h # Twice) => ~f.recovered
        /\ (ret[t].op = "Do" /\ ~ret[t].late) =>
              /\ ret[t].calls = 1
              /\ ret[t].arg # NIL
              /\ ret[t].recovered <=> ret[t].h = Twice
        /\ ~Crashed

\* C26's case: a Do() whose body received twice and sent twice has returned,
\* and the body of the Do() that followed has run.
C26_Witness ==
    \E t, u \in Threads :
        /\ ret[t].op = "Do" /\ ret[t].h = Twice /\ ret[t].recovered
        /\ Depth(u) = 1
        /\ Top(u).h = Same /\ Top(u).bpc = "end" /\ Top(u).arg = ret[t].new

\* C27: sharef.New() of a pointer panics and leaves its caller without a
\* Sharef; Sharef.Do() on a zero value, and on a Sharef to which an earlier
\* Do() wrote nil, panics before it has started its body; and no other New()
\* or Do() panics.
C27_SharefPanicsInsteadOfDying ==
    /\ kind = "Ptr" <=> <<"New", "Invalid state: pointer was provided.">> \in panics
    /\ kind \in {"Ptr", "None"} =>
          /\ \A c \in Cells : value[c] = NIL
          /\ \A t \in Threads : Depth(t) = 0 /\ ret[t] = NoRet
    /\ \A t \in Threads :
          /\ (Depth(t) > 0 /\ (Top(t).late \/ kind = "Zero")) =>
                Top(t).pc = "isDead" /\ Top(t).bpc = "idle" /\ Top(t).calls = 0
          /\ ret[t].op = "Do" =>
                /\ ret[t].panicked <=> (ret[t].late \/ kind = "Zero")
                /\ ret[t].panicked =>
                      /\ ret[t].calls = 0
                      /\ ret[t].reads = 0
                      /\ <<"Do", "Invalid state: value is nil.">> \in panics
                /\ ~ret[t].panicked => ret[t].calls = 1
    /\ (\E p \in panics : p[1] = "Do") =>
          \E t \in Threads : ret[t].op = "Do" /\ ret[t].panicked

\* C27's case: a Do() has written nil and the Do() that followed has
\* panicked.
C27_Witness ==
    \E t, u \in Threads :
        /\ ret[t].op = "Do" /\ ret[t].h = Kill /\ ~ret[t].panicked
        /\ ret[u].op = "Do" /\ ret[u].late /\ ret[u].panicked

\* The calls of package box's Atom that hold its mutex.
BoxHolders ==
    {p \in Frames : FrameAt(p).this = boxAtom /\ FrameAt(p).pc # "lock"}

\* Every goroutine's Use() and Swap() have returned.
BoxAllDone == \A t \in Threads : Depth(t) = 0 /\ ret[t].op = "Swap"

\* C28: in package box's Atom, Use() and Swap() look whether the Atom is
\* dead and run their handler while they hold the mutex: at most one call is
\* past Lock() at a time, a handler is only ever invoked with a pointer that
\* is not nil and runs while the Atom is alive, and once N concurrent
\* goroutines have each called Use() and then Swap() on an Atom made of 0,
\* with handlers that have incremented the int in place and returned a
\* pointer to the value plus one (none has returned nil), the Atom holds 2N.
C28_BoxAtomIsAtomic ==
    /\ Cardinality(BoxHolders) <= 1
    /\ \A p \in BoxHolders : mutex[boxAtom.mutex]
    /\ \A p \in Frames :
          /\ FrameAt(p).calls > 0 => FrameAt(p).arg # NIL
          /\ FrameAt(p).pc = "body" =>
                IsAlive(boxAtom) /\ FrameAt(p).arg = Load(boxAtom)
    /\ \A t \in Threads : (ret[t].op # "none" /\ ret[t].late) => ret[t].calls = 0
    /\ (BoxAllDone /\ IsAlive(boxAtom)) => heap[Load(boxAtom)] = 2 * NThreads

\* C28's case: all the goroutines are done and the Atom holds 2N.
C28_Witness ==
    /\ BoxAllDone
    /\ IsAlive(boxAtom)
    /\ heap[Load(boxAtom)] = 2 * NThreads

\* No Use(), Locking() or Swap() is in progress on the SharedRef.
Quiescent == \A t \in Threads : Depth(t) = 0

\* C36: whenever no Use(), Locking() or Swap() call is in progress, whatever
\* the calls that have returned did (ran their handler, were rejected, gave
\* up), the mutex is free, lsLocking and lsSwapping are false and useCounter
\* is 0.
C36_QuiescentCellIsUnlocked ==
    Quiescent => ~lsMutex /\ ~lsLocking /\ ~lsSwapping /\ useCounter = 0

\* C36's case: every goroutine has returned from a call, one from a Use()
\* or a Swap() that ran its handler and another from a call that gave up.
C36_Witness ==
    /\ Quiescent
    /\ deadlocked
    /\ \E t, u \in Threads :
          /\ ret[t].op \in {"Use", "Swap"} /\ ret[t].res /\ ret[t].calls = 1
          /\ ret[u].op \in {"Locking", "Swap"} /\ ~ret[u].res /\ ret[u].calls = 0

\* C31: the step by which tryLock() gives up ends the Locking() or Swap()
\* that called it with false, its handler never invoked, and changes neither
\* the value nor the mutex, lsLocking, lsSwapping or useCounter: what a
\* holder has set stays set.
C31_GiveUpChangesNothing ==
    [][\A t \in Threads :
          (/\ Depth(t) > 0
           /\ Top(t).pc = "sleep"
           /\ Len(stack'[t]) < Depth(t)) =>
              /\ Top(t).op \in {"Locking", "Swap"}
              /\ Top(t).calls = 0
              /\ UNCHANGED cell
              /\ IF Depth(t) = 1
                    THEN ret'[t].op = Top(t).op /\ ~ret'[t].res /\ ret'[t].calls = 0
                    ELSE LET r == stack'[t][Depth(t) - 1].sub
                         IN  r.op = Top(t).op /\ ~r.res /\ r.calls = 0]_vars

\* C31's case: a Locking() has given up while another call held the mutex
\* with its flag set, and the holder is still in its handler.
C31_Witness ==
    /\ deadlocked
    /\ lsMutex
    /\ \E t \in Threads :
          /\ Depth(t) = 0
          /\ ret[t].op = "Locking" /\ ~ret[t].res /\ ret[t].calls = 0
          /\ ~ret[t].late
    /\ \E p \in Frames :
          /\ FrameAt(p).pc = "body"
          /\ \/ FrameAt(p).op = "Locking" /\ lsLocking
             \/ FrameAt(p).op = "Swap" /\ lsSwapping

-----------------------------------------------------------------------------
\* Concurrent callers without nesting: a SharedRef made with no contention
\* handler, every goroutine making one call of Use(), Locking() or Swap()
\* with a handler that calls nothing and returns.
InitFlat == InitCell(TRUE, <<>>)

StepFlat(t) ==
    \/ UseIsDead(t)
    \/ UseIsSwapping(t)
    \/ UseAdd(t)
    \/ \E h \in Leaves("Use") : UseInvoke(t, h)
    \/ UseHandlerReturn(t)
    \/ UseSub(t)
    \/ TryLock(t)
    \/ Contend(t)
    \/ LockingIsDead(t)
    \/ LockingIsSwapping(t)
    \/ \E h \in Leaves("Locking") : LockingStore(t, h)
    \/ LockingHandlerReturn(t)
    \/ LockingClear(t)
    \/ LockingUnlock(t)
    \/ SwapIsDead(t)
    \/ SwapIsLocking(t)
    \/ SwapUseCounter(t)
    \/ SwapStoreFlag(t)
    \/ \E h \in Leaves("Swap") : SwapInvoke(t, h)
    \/ SwapHandlerReturn(t)
    \/ SwapStore(t)
    \/ SwapClear(t)
    \/ SwapUnlock(t)

NextFlat ==
    \E t \in Threads :
        \/ \E op \in Ops : CallOnce(t, op)
        \/ StepFlat(t)

SpecFlat == InitFlat /\ [][NextFlat]_vars

\* The Go scheduler lets a goroutine that can take a step take one.
FairFlat == SpecFlat /\ \A t \in Threads : WF_vars(StepFlat(t))

\* C37: with no contention handler and handlers that call nothing, a call
\* in progress can always take a step, and every call returns.
C37_NoDeadlockWithoutNesting ==
    /\ [](\A t \in Threads : Depth(t) > 0 => ENABLED <<StepFlat(t)>>_vars)
    /\ \A t \in Threads : (Depth(t) > 0) ~> (Depth(t) = 0 /\ ret[t].op # "none")

\* C37's case: with no contention handler, a Swap() has found the mutex
\* taken by a Locking() whose handler is running, and sleeps before its next
\* attempt.
C37_Witness ==
    /\ contentionHandlers = <<>>
    /\ \E t, u \in Threads :
          At(t, "Swap", "sleep") /\ At(u, "Locking", "body") /\ lsLocking

\* Goroutine t called Use() on the Atom, and the handler has called Use() on
\* the same Atom, not on its Nest().
UseInUse(t) ==
    /\ Depth(t) = 2
    /\ stack[t][1].op = "Use"
    /\ stack[t][1].this = atom
    /\ stack[t][1].h = <<"call", "Use", "same">>

\* C32: when one goroutine at a time uses an Atom, a Use() called from
\* inside a Use() handler on the same Atom, without Nest(), never returns:
\* its receiver has the mutex that the outer call holds, it gets no further
\* than Lock() and never invokes its handler, and no step ends either call.
C32_UseInUseNeverReturns ==
    /\ [](\A t \in Threads :
            UseInUse(t) =>
                /\ Top(t).this.mutex = stack[t][1].this.mutex
                /\ mutex[Top(t).this.mutex]
                /\ Top(t).calls = 0
                /\ Top(t).pc \in {"isDead", "lockedBySwap", "lock"})
    /\ [][\A t \in Threads :
            UseInUse(t) =>
                /\ UseInUse(t)'
                /\ stack'[t][1] = stack[t][1]
                /\ ret'[t] = NoRet]_vars

\* C32's case: the inner Use() has passed its precondition and waits in
\* Lock() for the mutex that the outer Use() holds.
C32_Witness == \E t \in Threads : UseInUse(t) /\ Top(t).pc = "lock"

-----------------------------------------------------------------------------
\* Concurrent Swap() callers: every goroutine makes one call of Swap(), on
\* the Atom or on an Atom that Nest() returns, with a handler that calls
\* nothing.
StepAtomSwaps(t) ==
    \/ AtomIsDead(t)
    \/ AtomLockedByUse(t)
    \/ AtomLockedBySwap(t)
    \/ AtomLock(t)
    \/ AtomSetFlag(t)
    \/ \E h \in Leaves("Swap") : AtomInvoke(t, "Swap", h)
    \/ AtomSwapHandlerReturn(t)
    \/ AtomSwapStore(t)
    \/ AtomClearFlag(t)
    \/ AtomUnlock(t)

NextAtomSwaps ==
    \E t \in Threads :
        \/ \E via \in Vias : ret[t] = NoRet /\ AtomCall(t, "Swap", via)
        \/ StepAtomSwaps(t)

SpecAtomSwaps == InitAtom /\ [][NextAtomSwaps]_vars

\* C38: over the Atom and the Atoms that Nest() returned, at most one Swap()
\* handler is running at any moment.
C38_SwapExclusiveAcrossNest ==
    \A p, q \in Frames :
        (/\ FrameAt(p).op = "Swap" /\ FrameAt(p).pc = "body"
         /\ FrameAt(q).op = "Swap" /\ FrameAt(q).pc = "body") => p = q

\* The Do() calls that have given the group its event: those that have
\* returned after running their body, and those in progress past the
\* notification.
Notified ==
    {t \in Threads :
        \/ Depth(t) = 0 /\ ret[t].op = "Do" /\ ret[t].res
        \/ Depth(t) > 0 /\ stack[t][1].op = "Do" /\ stack[t][1].pc \in {"unlock", "wait"}}

\* C33: on an Atom that a group with a callback made, a Do() that runs its
\* body gives the callback one event and no other step gives it any: the
\* step is the caller's, it comes when the value the body sent is the
\* cell's, the writer is closed and the locker is still held by the call,
\* which has not returned, and the event holds what the body received as
\* Previous and what it sent as Current (-1 standing for nil).  Without a
\* group or a callback there is no event.
C33_CallbackOnceAfterStoreBeforeUnlock ==
    /\ [](Len(events) =
             IF Handle.group /\ group.onReadWrite THEN Cardinality(Notified) ELSE 0)
    /\ [][/\ \A t \in Threads : \A i \in 1..Depth(t) :
               (CallerAt(t, i, "notify") /\ stack'[t][i].pc # "notify") =>
                   LET f == stack[t][i]
                   IN  /\ stack'[t][i].pc = "unlock"
                       /\ stack'[t][i].bpc = f.bpc
                       /\ value[f.this.state] = f.new
                       /\ f.wclosed
                       /\ locker[f.locker] /\ locker'[f.locker]
                       /\ f.prev # NIL /\ f.prev = f.arg
                       /\ IF f.this.group /\ group.onReadWrite
                             THEN events' = Append(events,
                                     [GroupName |-> "group-1", AtomName |-> "atom-1",
                                      Previous |-> heap[f.prev],
                                      Current |-> IF f.new = NIL THEN -1
                                                  ELSE heap[f.new]])
                             ELSE events' = events
          /\ events' # events =>
                \E t \in Threads : \E i \in 1..Depth(t) :
                    CallerAt(t, i, "notify") /\ stack'[t][i].pc = "unlock"]_vars

\* C33's case: the callback has had the event of a Do() whose body sent nil,
\* and the call has returned.
C33_Witness ==
    /\ \E t \in Threads :
          Depth(t) = 0 /\ ret[t].op = "Do" /\ ret[t].res /\ ret[t].h = Kill
    /\ \E j \in 1..Len(events) : events[j].Previous = 0 /\ events[j].Current = -1

-----------------------------------------------------------------------------
\* Concurrent Do() calls of which some send nil: every goroutine calls
\* Atom.Do() once, all with one locker, with a body that sends back a pointer
\* to what it received plus one, the pointer it received, or nil, on an Atom
\* made by New(0) or by group.New("atom-1", 0).
InitDoRace == \E g \in {NoGroup} \cup Groups : InitDo("Int", g)

NextDoRace ==
    \E t \in Threads :
        \/ \E h \in {Inc, Same, Kill} : ret[t] = NoRet /\ DoCall(t, "atom", 1, h)
        \/ \E i \in 1..Depth(t) :
              \/ DoCaller(t, i)
              \/ BodyNilDereference(t, i)
              \/ DoNotifyNil(t, i)
              \/ BodyReturn(t, i)
              \/ BodyWgDone(t, i)

SpecDoRace == InitDoRace /\ [][NextDoRace]_vars

\* C40: what a body of concurrent Do() calls with one locker receives on its
\* first read of the Reader is never nil, and the Previous that the group's
\* callback is given is never nil.
C40_BodyNeverReceivesNil ==
    /\ \A p \in Frames :
          /\ (FrameAt(p).op = "Do" /\ FrameAt(p).reads > 0) => FrameAt(p).arg # NIL
          /\ (/\ FrameAt(p).op = "Do"
              /\ FrameAt(p).pc = "notify"
              /\ FrameAt(p).this.group
              /\ group.onReadWrite) => FrameAt(p).prev # NIL
    /\ \A t \in Threads :
          (ret[t].op = "Do" /\ ret[t].reads > 0) => ret[t].arg # NIL

-----------------------------------------------------------------------------
\* Do() called from inside a body (Test_Atom_Do_Nesting,
\* Test_Atom_Do_Last_Write_Wins and their like in package sharef).

\* The inner body of both tests: it increments the int in place and sends
\* the pointer back.
InPlace == <<"recv", "incr", "sendSame">>

Calls == {"callOther", "callSame"}

\* The outer body of the nesting tests: it receives the pointer, increments
\* the int in place, calls Do() and sends the pointer back.
Nesting(c) == <<"recv", "incr", c, "sendSame">>

\* The outer body of the last-write-wins tests: it calls Do(), then receives
\* the pointer and sends nil or a pointer to a new int.
LastWrite(c, s) == <<c, "recv", s>>

NestBodies ==
    {InPlace, Same}
    \cup {Nesting(c) : c \in Calls}
    \cup {LastWrite(c, s) : c \in Calls, s \in {"sendNil", "sendSucc"}}

\* Another locker than l: the tests' mutexB next to mutexA.
OtherLocker(l) == CHOOSE m \in Lockers : m # l

\* The body's '*pointer++'.
BodyIncr(t, i) ==
    /\ BodyAt(t, i, {"incr"})
    /\ stack[t][i].arg # NIL
    /\ heap' = [heap EXCEPT ![stack[t][i].arg] = @ + 1]
    /\ SetAt(t, i, [stack[t][i] EXCEPT !.hpc = @ + 1])
    /\ UNCHANGED <<value, ret, killed, atomState, sharedrefState>>

\* BodyCall passing the locker of the enclosing Do() whatever the body asks
\* for.
BodyCall_SameLocker(t, i) ==
    /\ BodyAt(t, i, Calls)
    /\ LET f == stack[t][i]
       IN  stack' = [stack EXCEPT ![t] = Append(@, DoFrame(f.impl, f.locker, InPlace))]
    /\ UNCHANGED <<value, heap, ret, killed, atomState, sharedrefState>>

\* The body calls Do(locker, body) on the handle: its goroutine is the
\* caller of the new Do(), and goes on with its own steps when that returns.
BodyCall(t, i) ==
    /\ BodyAt(t, i, Calls)
    /\ LET f == stack[t][i]
           l == IF f.h[f.hpc + 1] = "callSame" THEN f.locker ELSE OtherLocker(f.locker)
       IN  stack' = [stack EXCEPT ![t] = Append(@, DoFrame(f.impl, l, InPlace))]
    /\ UNCHANGED <<value, heap, ret, killed, atomState, sharedrefState>>

\* The nesting tests: one goroutine at a time calls Do() of package atom or
\* of package sharef on a handle made by New(0); the first with a body that
\* calls Do() again or with one that does not, the later ones with the body
\* by which the tests look at the value.
InitDoNesting == InitDo("Int", NoGroup)

DoNestingCall(t, impl, h) ==
    /\ \A u \in Threads : Depth(u) = 0
    /\ \A u \in Threads : ret[u].op = "Do" => ret[u].impl = impl
    /\ ret[t] = NoRet
    /\ (\E u \in Threads : ret[u].op = "Do") => h = Same
    /\ impl = "sharef" => \A k \in 1..Len(h) : h[k] # "callSame"
    /\ DoCall(t, impl, 1, h)

StepDoNesting(t) ==
    \E i \in 1..Depth(t) :
        \/ DoCaller(t, i)
        \/ SharefIsNil(t, i)
        \/ BodyIncr(t, i)
        \/ BodyCall(t, i)
        \/ BodyReturn(t, i)
        \/ BodyWgDone(t, i)

NextDoNesting ==
    \E t \in Threads :
        \/ \E impl \in {"atom", "sharef"}, h \in NestBodies : DoNestingCall(t, impl, h)
        \/ StepDoNesting(t)

SpecDoNesting == InitDoNesting /\ [][NextDoNesting]_vars

\* The Go scheduler lets a goroutine that can take a step take one.
FairDoNesting == SpecDoNesting /\ \A t \in Threads : WF_vars(StepDoNesting(t))

\* The body h calls Do() with the locker of the Do() that runs it.
CallsSame(h) == \E k \in 1..Len(h) : h[k] = "callSame"

SameInside(t) ==
    /\ Depth(t) = 2
    /\ stack[t][1].impl = "atom"
    /\ stack[t][1].reads > 0
    /\ stack[t][2].locker = stack[t][1].locker

Did(t, h) == Depth(t) = 0 /\ ret[t].op = "Do" /\ ret[t].h = h

\* C34: a Do() whose body receives the pointer, increments the int, calls
\* Do() on the same handle with another locker and sends the pointer back
\* completes: both bodies have run, the inner one receiving and sending the
\* same pointer, the int that was 0 is 2 and is still the cell's, a Do()
\* that has started its body returns only once the body has returned and
\* its goroutine has called wg.Done(), and every such Do() in progress
\* returns.
C34_NestedDoWithOtherLockerCompletes ==
    /\ [](\A t \in Threads :
            Did(t, Nesting("callOther")) =>
                /\ ret[t].res /\ ret[t].calls = 1
                /\ ret[t].sub.op = "Do" /\ ret[t].sub.res /\ ret[t].sub.h = InPlace
                /\ ret[t].sub.arg = ret[t].arg /\ ret[t].sub.new = ret[t].arg
                /\ ret[t].new = ret[t].arg
                /\ value[Handle.state] = ret[t].arg
                /\ heap[ret[t].arg] = 2)
    /\ [][\A t \in Threads :
            (Depth(t) > 0 /\ Len(stack'[t]) < Depth(t) /\ Top(t).calls > 0) =>
                Top(t).bpc = "end" /\ Top(t).hpc = Len(Top(t).h)]_vars
    /\ \A t \in Threads :
          (Depth(t) > 0 /\ stack[t][1].h = Nesting("callOther"))
              ~> Did(t, Nesting("callOther"))

\* C34's case: an Atom's nested Do() has returned, and so has the Do() that
\* another goroutine called after it, whose body received the pointer to 2.
C34_Witness ==
    \E t, u \in Threads :
        /\ Did(t, Nesting("callOther")) /\ ret[t].impl = "atom"
        /\ Did(u, Same) /\ ret[u].arg = ret[t].arg /\ heap[ret[u].arg] = 2

\* The outer bodies of the last-write-wins tests.
LastWrites == {LastWrite(c, s) : c \in Calls, s \in {"sendNil", "sendSucc"}}

\* C35: when a Do() whose body first calls Do(), with a body that increments
\* the int in place and sends the pointer back, and then receives and sends
\* a value of its own, has returned, the cell holds the outer body's value:
\* nil, and the cell is dead, or the pointer to a new int, which is not the
\* pointer the inner call stored; and the outer body received the pointer
\* that the inner body had, with the int that was 0 now 1.
C35_LastWriteWins ==
    \A t \in Threads : \A h \in LastWrites :
        Did(t, h) =>
            /\ ret[t].res
            /\ ret[t].sub.op = "Do" /\ ret[t].sub.res /\ ret[t].sub.h = InPlace
            /\ ret[t].arg = ret[t].sub.new /\ ret[t].arg # NIL
            /\ heap[ret[t].arg] = 1
            /\ value[Handle.state] = ret[t].new
            /\ ret[t].new # ret[t].sub.new
            /\ h[3] = "sendNil" => ret[t].new = NIL /\ StateIsDead(Handle)
            /\ h[3] = "sendSucc" => ret[t].new # NIL /\ heap[ret[t].new] = 2

\* C35's case: such a Do() whose body sent nil has returned, and a Do()
\* called after it by another goroutine has returned without running its
\* body.
C35_Witness ==
    \E t, u \in Threads :
        /\ Did(t, LastWrite("callOther", "sendNil"))
        /\ Did(u, Same) /\ ~ret[u].res

====
